---- MODULE Spec2Model ----
(***************************************************************************)
(* Account provisioning workflow (createAccountSSE), its progress stream,  *)
(* the OAuth callback and the token refresh cron job of Clingy-API-v3,      *)
(* with the GoHighLevel platform, Google Drive and the MongoDB credential   *)
(* collection as the environment.                                           *)
(*                                                                          *)
(* One action is one stretch of JavaScript between two awaits: the return   *)
(* of the awaited external call (with the outcome the environment chose)    *)
(* and the synchronous code that follows it.                                *)
(***************************************************************************)
EXTENDS Integers, Sequences, FiniteSets, TLC

VARIABLES
    store,             \* the OAuthCredentials collection: a set of documents
    nextDocId,         \* next _id the collection hands out
    ghlUsers,          \* platform: e-mails of the users that exist
    ghlLocations,      \* platform: the locations (accounts) created so far
    ghlCustomValues,   \* platform: location id -> list of custom values
    ghlIssued,         \* platform: how many token responses were issued, and the last one
    driveFolders,      \* storage: the folders created so far
    wf,                \* workflow runs: run id -> state of one createAccountSSE
    now,               \* wall clock, milliseconds
    ticks,             \* number of clock advances so far
    sched,             \* the cron job's current run
    cb                 \* OAuth callback requests: request id -> state of one handleOAuthCallback

vars == << store, nextDocId, ghlUsers, ghlLocations, ghlCustomValues, ghlIssued,
           driveFolders, wf, now, ticks, sched, cb >>

wfEnv    == << ghlUsers, ghlLocations, ghlCustomValues, driveFolders >>
storeEnv == << store, nextDocId, ghlIssued >>
clockEnv == << now, ticks >>

----------------------------------------------------------------------------
(* Bounds of the model *)

MaxMissing == 2        \* a request lacks at most this many body keys
MaxTicks   == 2        \* clock advances in one behaviour
MaxIssued  == 2        \* token sets the platform issues in one behaviour
MaxCallbacks == 1      \* authorization callbacks received in one behaviour
MaxCadenceTicks == 4   \* clock advances in one behaviour of the scheduler on its cadence

----------------------------------------------------------------------------
(* Configuration (process.env) *)

GHL_AGENCY_COMPANY_ID  == "agency"
GHL_PARENT_LOCATION_ID == "parentLoc"
GOOGLE_DRIVE_PARENT_FOLDER_ID == "parentFolder"

NoValue == "undefined"          \* an absent (falsy) JavaScript value

Truthy(v) == v # NoValue /\ v # ""

----------------------------------------------------------------------------
(* Tokens *)

NoToken          == [kind |-> "none", n |-> 0, loc |-> ""]
AgencyToken(k)   == [kind |-> "agency", n |-> k, loc |-> ""]
RefreshToken(k)  == [kind |-> "refresh", n |-> k, loc |-> ""]
LocationToken(l) == [kind |-> "location", n |-> 0, loc |-> l]

TokenTruthy(t) == t.kind # "none"

----------------------------------------------------------------------------
(* The progress stream *)

Progress(text) == [fail |-> FALSE, text |-> text]
Failure(text)  == [fail |-> TRUE, text |-> text]    \* the messages that start with the cross mark

EvMissingFields  == Failure("Error: Missing required fields.")
EvNoToken        == Failure("Error: Access token not available. Please authorize first.")
EvUserExists     == Failure("Error: User already exists.")
EvFolderError    == Failure("Error during Google Drive folder creation.")
EvValidating     == Progress("Validating your details...")
EvCreating       == Progress("Creating your new marketing account...")
EvWelcome        == Progress("Welcome aboard! Your journey to smarter marketing starts here.")
EvUserProfile    == Progress("Setting up your user profile...")
EvOneStepCloser  == Progress("You're one step closer to automating your marketing!")
EvCommandCenter  == Progress("Configuring your command center...")
EvOrganized      == Progress("Getting things organized! Your Google Drive folder is on its way.")
EvFolderCreated  == Progress("Google Drive folder created successfully.")
EvHangTight      == Progress("Hang tight! We're setting up your Clingy experience.")
EvSuccess        == Progress("Success! Your details are saved, and Clingy is ready to roll.")
EvGreatJob       == Progress("Great job! Your account is now active and ready for action.")

\* res.write through sendEvent; a write issued after res.end() is counted, and a
\* write issued after the client has gone is dropped by the closed socket
sendEvent(w, msg) ==
    [w EXCEPT !.events = Append(@, msg),
              !.delivered = IF w.connected THEN @ + 1 ELSE @,
              !.lateWrites = IF w.ended > 0 THEN @ + 1 ELSE @]

resEnd(w) == [w EXCEPT !.ended = @ + 1]

\* the run's history of awaited operations
Record(w, kind, op, ok, token, target) ==
    [w EXCEPT !.trace = Append(@, [kind |-> kind, op |-> op, ok |-> ok,
                                   token |-> token, target |-> target])]

Finish(w) == [w EXCEPT !.pc = "done"]

----------------------------------------------------------------------------
(* The provisioning request (req.body) *)

BodyKeys == { "first_name", "last_name", "email", "Business Name", "business_name",
              "phone", "address1", "city", "state", "country", "postal_code" }

SampleBody ==
    [k \in BodyKeys |->
        CASE k = "email"       -> "new@client.com"
          [] k = "country"     -> "US"
          [] k = "postal_code" -> "10001"
          [] OTHER             -> "given"]

Requests ==
    { [k \in BodyKeys |-> IF k \in m THEN NoValue ELSE SampleBody[k]] :
        m \in { s \in SUBSET BodyKeys : Cardinality(s) <= MaxMissing } }

OrElse(a, b) == IF Truthy(a) THEN a ELSE b          \* JavaScript a || b

businessName(body) == OrElse(body["Business Name"], body["business_name"])

\* the validation with the postal code forgotten
AllRequiredPresentButPostalCode(body) ==
    /\ Truthy(body["first_name"])
    /\ Truthy(body["last_name"])
    /\ Truthy(body["email"])
    /\ Truthy(businessName(body))
    /\ Truthy(body["phone"])
    /\ Truthy(body["address1"])
    /\ Truthy(body["city"])
    /\ Truthy(body["state"])
    /\ Truthy(body["country"])

AllRequiredPresent(body) ==
    /\ Truthy(body["first_name"])
    /\ Truthy(body["last_name"])
    /\ Truthy(body["email"])
    /\ Truthy(businessName(body))
    /\ Truthy(body["phone"])
    /\ Truthy(body["address1"])
    /\ Truthy(body["city"])
    /\ Truthy(body["state"])
    /\ Truthy(body["country"])
    /\ Truthy(body["postal_code"])

----------------------------------------------------------------------------
(* Custom values *)

fieldsToSync ==
    << "Agency Color 1", "Agency Color 2", "Agency Dark Logo", "Agency Light Logo",
       "Agency Name", "Agency Phone Number", "Agency Support Email",
       "Command Center Link Ending", "Client Assets Folder Link" >>

AllowList == { fieldsToSync[k] : k \in DOMAIN fieldsToSync }

Item(id, name, value) == [id |-> id, name |-> name, value |-> value]
NoItem == Item(NoValue, NoValue, NoValue)

\* a forEach that copies id and name and forgets the value
BuildCustomWithoutValues(list) ==
    [n \in AllowList |->
        LET at == { k \in DOMAIN list : list[k].name = n }
        IN  IF at = {} THEN NoItem
            ELSE Item(list[CHOOSE k \in at : \A j \in at : j <= k].id, n, NoValue)]

\* a forEach that compares the names without regard to letter case
BuildCustomFoldingCase(list) ==
    [n \in AllowList |->
        LET fold(name) == IF name = "agency color 2" THEN "Agency Color 2" ELSE name
            at == { k \in DOMAIN list : fold(list[k].name) = n }
        IN  IF at = {} THEN NoItem
            ELSE list[CHOOSE k \in at : \A j \in at : j <= k]]

\* the forEach that fills parentCustom / childCustom: allow-listed names only,
\* a later item of the same name overwrites an earlier one
BuildCustom(list) ==
    [n \in AllowList |->
        LET at == { k \in DOMAIN list : list[k].name = n }
        IN  IF at = {} THEN NoItem
            ELSE list[CHOOSE k \in at : \A j \in at : j <= k]]

Present(item) == item # NoItem

\* custom values of the template location
ParentFieldConfigs ==
    { << Item("p1", "Agency Name", "Clingy"),
         Item("p2", "Agency Color 1", "#112233"),
         Item("p3", "Command Center Link Ending", "/templatePage"),
         Item("p4", "Client Assets Folder Link", "templateFolderUrl"),
         Item("p5", "Unlisted Field", "secret") >>,
      << Item("p1", "Agency Name", "Clingy"),
         Item("p6", "Agency Support Email", "help@clingy.app"),
         Item("p7", "agency color 2", "#445566") >> }

\* custom values a new location gets from the snapshot
ChildFieldConfigs ==
    { << Item("c1", "Agency Name", ""),
         Item("c2", "Agency Color 1", ""),
         Item("c3", "Command Center Link Ending", ""),
         Item("c4", "Client Assets Folder Link", ""),
         Item("c5", "Unlisted Field", "") >>,
      << Item("c2", "Agency Color 1", ""),
         Item("c7", "Agency Support Email", ""),
         Item("c3", "Command Center Link Ending", ""),
         Item("c8", "agency color 2", "") >>,
      << >> }

LocationIds == << "loc1", "loc2" >>
FolderIds   == << "folder1", "folder2" >>

AllLocations == { GHL_PARENT_LOCATION_ID } \cup { LocationIds[k] : k \in DOMAIN LocationIds }

\* PUT /locations/{locationId}/customValues/{customValueId} on the platform
PutCustomValue(cv, locationId, customValueId, name, value) ==
    [cv EXCEPT ![locationId] =
        [k \in DOMAIN @ |-> IF @[k].id = customValueId
                            THEN Item(customValueId, name, value) ELSE @[k]]]

----------------------------------------------------------------------------
(* Funnel listing *)

Step(name, pages) == [name |-> name, pages |-> pages]

\* response.data.funnels of GET /funnels/funnel/list: a list of funnels, each a list of steps
FunnelResponses ==
    { << >>,
      << << Step("Landing", << "page0" >>) >> >>,
      << << Step("Landing", << "page0" >>), Step("Client Portal", << >>) >> >>,
      << << Step("Landing", << "page0" >>), Step("Client Portal", << "page7", "page8" >>) >> >>,
      << << Step("Client Portal", << "page7" >>) >>, << Step("Client Portal", << "page9" >>) >> >>,
      << << Step("client portal", << "page5" >>) >> >>,
      << << Step("Landing", << "page0" >>) >>, << Step("Client Portal", << "page9" >>) >> >> }

\* an extraction that takes the first page of the first step that has one, whatever its name
FunnelPageIdOfAnyStep(funnels) ==
    IF Len(funnels) = 0 THEN NoValue
    ELSE LET funnel == funnels[1]
             hits   == { k \in DOMAIN funnel : Len(funnel[k].pages) > 0 }
         IN  IF hits = {} THEN NoValue
             ELSE funnel[CHOOSE k \in hits : \A j \in hits : k <= j].pages[1]

\* getFunnelList's extraction; NoValue stands for the thrown error
FunnelPageId(funnels) ==
    IF Len(funnels) = 0 THEN NoValue
    ELSE LET funnel == funnels[1]
             hits   == { k \in DOMAIN funnel : funnel[k].name = "Client Portal" }
         IN  IF hits = {} THEN NoValue
             ELSE LET clientPortalStep == funnel[CHOOSE k \in hits : \A j \in hits : k <= j]
                  IN  IF Len(clientPortalStep.pages) = 0 THEN NoValue
                      ELSE clientPortalStep.pages[1]

----------------------------------------------------------------------------
(* The Credential Store (Mongoose model OAuthCredentials) *)

Doc(id, companyId, access, refresh, ttl, created, userId, locationId) ==
    [_id |-> id, companyId |-> companyId, access_token |-> access,
     refresh_token |-> refresh, expires_in |-> ttl, created_at |-> created,
     userId |-> userId, locationId |-> locationId]

NoDoc == Doc(0, NoValue, NoToken, NoToken, 0, 0, NoValue, NoValue)

\* a findOne that forgets its filter
findOneOfAnyCompany(coll, companyId) ==
    IF coll = {} THEN NoDoc ELSE CHOOSE d \in coll : \A e \in coll : d._id <= e._id

\* OAuthCredentials.findOne({ companyId }): null (NoDoc) when no document matches
findOne(coll, companyId) ==
    LET hits == { d \in coll : d.companyId = companyId }
    IN  IF hits = {} THEN NoDoc
        ELSE CHOOSE d \in hits : \A e \in hits : d._id <= e._id

----------------------------------------------------------------------------
(* createAccountSSE: one run *)

NoAccount == [id |-> NoValue, name |-> NoValue, email |-> NoValue]

NewRun(body) ==
    [pc |-> "validate", body |-> body,
     events |-> << >>, ended |-> 0, lateWrites |-> 0, trace |-> << >>,
     connected |-> TRUE, delivered |-> 0,
     agencyAccessToken |-> NoToken, agencyCompanyId |-> NoValue,
     creationResponse |-> NoAccount, password |-> NoValue,
     childAccessToken |-> NoToken, parentAccessToken |-> NoToken,
     listed |-> FALSE, funnels |-> << >>,
     commandCenterLink |-> NoValue, newFolder |-> NoValue, folderId |-> NoValue,
     parentCustom |-> [n \in AllowList |-> NoItem],
     childCustom |-> [n \in AllowList |-> NoItem],
     i |-> 1]

\* a server that takes up a request's next step only while no other request is
\* waiting for a call to return
AtWhileOthersRest(r, label) ==
    /\ r \in DOMAIN wf
    /\ wf[r].pc = label
    /\ \A q \in DOMAIN wf \ { r } : wf[q].pc \in { "validate", "done" }

At(r, label) == r \in DOMAIN wf /\ wf[r].pc = label

Set(r, w) == wf' = [wf EXCEPT ![r] = w]

\* a handler that gives up at its next step once the client has gone
GotoWhileConnected(w, label) ==
    IF w.connected THEN [w EXCEPT !.pc = label] ELSE [w EXCEPT !.pc = "done"]

Goto(w, label) == [w EXCEPT !.pc = label]

\* a catch block that closes the stream without reporting the error
CatchErrorSilently(w, message) == Finish(resEnd(w))

\* a catch block that reports the error without the cross mark
CatchErrorWithoutPrefix(w, message) == Finish(resEnd(sendEvent(w, Progress(message))))

\* the outer catch block: one failure event built from err.message, then res.end()
CatchError(w, message) == Finish(resEnd(sendEvent(w, Failure(message))))

\* an early return that leaves the stream open
AbortWithoutEnd(w, event) == Finish(sendEvent(w, event))

\* an early "sendEvent(...); return res.end();"
Abort(w, event) == Finish(resEnd(sendEvent(w, event)))

\* Step 1: validation of req.body
Validate(r) ==
    /\ At(r, "validate")
    /\ IF AllRequiredPresent(wf[r].body)
       THEN Set(r, Goto(wf[r], "findCredentials"))
       ELSE Set(r, Abort(wf[r], EvMissingFields))
    /\ UNCHANGED << wfEnv, storeEnv, clockEnv, sched, cb >>
\* a credential lookup that removes the record it read
FindCredentialsAndConsume(r) ==
    /\ At(r, "findCredentials")
    /\ LET credentials == findOne(store, GHL_AGENCY_COMPANY_ID)
           w == Record(wf[r], "store", "findOne", TRUE, NoToken, GHL_AGENCY_COMPANY_ID)
       IN  IF credentials = NoDoc \/ ~TokenTruthy(credentials.access_token)
           THEN Set(r, Abort(w, EvNoToken)) /\ UNCHANGED store
           ELSE /\ Set(r, [Goto(w, "checkUserExists") EXCEPT
                             !.agencyAccessToken = credentials.access_token,
                             !.agencyCompanyId = OrElse(credentials.companyId, GHL_AGENCY_COMPANY_ID)])
                /\ store' = store \ { credentials }
    /\ UNCHANGED << wfEnv, nextDocId, ghlIssued, clockEnv, sched, cb >>


\* Step 2: OAuthCredentials.findOne({ companyId: GHL_AGENCY_COMPANY_ID })
FindCredentials(r) ==
    /\ At(r, "findCredentials")
    /\ LET credentials == findOne(store, GHL_AGENCY_COMPANY_ID)
           w == Record(wf[r], "store", "findOne", TRUE, NoToken, GHL_AGENCY_COMPANY_ID)
       IN  IF credentials = NoDoc \/ ~TokenTruthy(credentials.access_token)
           THEN Set(r, Abort(w, EvNoToken))
           ELSE Set(r, [Goto(w, "checkUserExists") EXCEPT
                          !.agencyAccessToken = credentials.access_token,
                          !.agencyCompanyId = OrElse(credentials.companyId, GHL_AGENCY_COMPANY_ID)])
    /\ UNCHANGED << wfEnv, storeEnv, clockEnv, sched, cb >>

\* the existence test with the comparison off by one
UserExistsMoreThanOnce(users, email) == Cardinality({ u \in users : u = email }) > 1

\* checkUserExists' result: searchResponse.count > 0
UserExists(users, email) == email \in users

\* a uniqueness check that waits while another run for the same e-mail is between its
\* own check and the creation of its user
CheckUserExistsUnderLock(r) ==
    /\ At(r, "checkUserExists")
    /\ \A q \in DOMAIN wf \ { r } :
          ~(/\ wf[q].body["email"] = wf[r].body["email"]
            /\ wf[q].pc \in { "createAccount", "delayUser", "createUser" })
    /\ \E ok \in BOOLEAN :
        LET email == wf[r].body["email"]
            w == Record(wf[r], "ghl", "checkUserExists", ok, wf[r].agencyAccessToken, email)
            userExists == UserExists(ghlUsers, email)
        IN  IF ~ok THEN Set(r, CatchError(w, "Error: GHL User Check Failed"))
            ELSE IF userExists THEN Set(r, Abort(w, EvUserExists))
            ELSE Set(r, Goto(sendEvent(sendEvent(w, EvValidating), EvCreating), "createAccount"))
    /\ UNCHANGED << wfEnv, storeEnv, clockEnv, sched, cb >>

\* Step 2.1: ghlService.checkUserExists
CheckUserExists(r) ==
    /\ At(r, "checkUserExists")
    /\ \E ok \in BOOLEAN :
        LET email == wf[r].body["email"]
            w == Record(wf[r], "ghl", "checkUserExists", ok, wf[r].agencyAccessToken, email)
            userExists == UserExists(ghlUsers, email)
        IN  IF ~ok THEN Set(r, CatchError(w, "Error: GHL User Check Failed"))
            ELSE IF userExists THEN Set(r, Abort(w, EvUserExists))
            ELSE Set(r, Goto(sendEvent(sendEvent(w, EvValidating), EvCreating), "createAccount"))
    /\ UNCHANGED << wfEnv, storeEnv, clockEnv, sched, cb >>

\* a step that writes the welcome message before it knows the outcome of the call
CreateAccountAnnouncedEarly(r) ==
    /\ At(r, "createAccount")
    /\ \E ok \in BOOLEAN :
        LET w == Record(wf[r], "ghl", "createAccount", ok, wf[r].agencyAccessToken,
                        businessName(wf[r].body))
        IN  IF ~ok
            THEN /\ Set(r, CatchError(sendEvent(w, EvWelcome),
                                        "Error: GHL Account Creation Failed"))
                 /\ UNCHANGED << ghlLocations, ghlCustomValues >>
            ELSE /\ Cardinality(ghlLocations) < Len(LocationIds)
                 /\ \E snapshotValues \in ChildFieldConfigs,
                       dataEmail \in { NoValue, wf[r].body["email"] } :
                       LET data == [id |-> LocationIds[Cardinality(ghlLocations) + 1],
                                    name |-> businessName(wf[r].body),
                                    email |-> dataEmail]
                       IN  /\ ghlLocations' = ghlLocations \cup
                                 { [id |-> data.id, name |-> data.name, email |-> data.email,
                                    prospect |-> wf[r].body["email"]] }
                           /\ ghlCustomValues' = [ghlCustomValues EXCEPT ![data.id] = snapshotValues]
                           /\ Set(r, [Goto(sendEvent(sendEvent(w, EvWelcome), EvUserProfile), "delayUser")
                                        EXCEPT !.creationResponse = data])
    /\ UNCHANGED << ghlUsers, driveFolders, storeEnv, clockEnv, sched, cb >>

\* Step 3: ghlService.createAccount; the platform creates the location from the snapshot
CreateAccount(r) ==
    /\ At(r, "createAccount")
    /\ \E ok \in BOOLEAN :
        LET w == Record(wf[r], "ghl", "createAccount", ok, wf[r].agencyAccessToken,
                        businessName(wf[r].body))
        IN  IF ~ok
            THEN /\ Set(r, CatchError(w, "Error: GHL Account Creation Failed"))
                 /\ UNCHANGED << ghlLocations, ghlCustomValues >>
            ELSE /\ Cardinality(ghlLocations) < Len(LocationIds)
                 /\ \E snapshotValues \in ChildFieldConfigs,
                       dataEmail \in { NoValue, wf[r].body["email"] } :
                       LET data == [id |-> LocationIds[Cardinality(ghlLocations) + 1],
                                    name |-> businessName(wf[r].body),
                                    email |-> dataEmail]
                       IN  /\ ghlLocations' = ghlLocations \cup
                                 { [id |-> data.id, name |-> data.name, email |-> data.email,
                                    prospect |-> wf[r].body["email"]] }
                           /\ ghlCustomValues' = [ghlCustomValues EXCEPT ![data.id] = snapshotValues]
                           /\ Set(r, [Goto(sendEvent(sendEvent(w, EvWelcome), EvUserProfile), "delayUser")
                                        EXCEPT !.creationResponse = data])
    /\ UNCHANGED << ghlUsers, driveFolders, storeEnv, clockEnv, sched, cb >>

\* delay(ms) without its await: the handler goes on while the timer runs
DelayNotAwaited(r, from, ms, to) ==
    /\ At(r, from)
    /\ Set(r, Goto(wf[r], to))
    /\ UNCHANGED << wfEnv, storeEnv, clockEnv, sched, cb >>

\* a delay whose promise is never resolved
DelayNeverResolves(r, from, ms, to) ==
    /\ At(r, from)
    /\ FALSE
    /\ UNCHANGED vars

\* await delay(ms): the timer fires
Delay(r, from, ms, to) ==
    /\ At(r, from)
    /\ Set(r, Goto(Record(wf[r], "delay", "delay", TRUE, NoToken, ms), to))
    /\ UNCHANGED << wfEnv, storeEnv, clockEnv, sched, cb >>

DelayBeforeUser(r) == Delay(r, "delayUser", "10000", "createUser")

\* a createUser step that deletes the new location when the user cannot be created
CreateUserRollsBackAccount(r) ==
    /\ At(r, "createUser")
    /\ \E ok \in BOOLEAN :
        LET password == "Marketcl!ng_" \o wf[r].body["country"] \o wf[r].body["postal_code"]
            w == [Record(wf[r], "ghl", "createUser", ok, wf[r].agencyAccessToken,
                         wf[r].creationResponse.id) EXCEPT !.password = password]
        IN  IF ~ok
            THEN /\ Set(r, CatchError(w, "Error: GHL User Creation Failed"))
                 /\ ghlLocations' = { l \in ghlLocations : l.id # wf[r].creationResponse.id }
                 /\ UNCHANGED ghlUsers
            ELSE /\ Set(r, Goto(sendEvent(sendEvent(w, EvOneStepCloser), EvCommandCenter),
                                "childToken"))
                 /\ ghlUsers' = ghlUsers \cup { wf[r].body["email"] }
                 /\ UNCHANGED ghlLocations
    /\ UNCHANGED << ghlCustomValues, driveFolders, storeEnv, clockEnv, sched, cb >>

\* a createUser step whose password also carries the e-mail of the request
CreateUserPasswordFromEmail(r) ==
    /\ At(r, "createUser")
    /\ \E ok \in BOOLEAN :
        LET password == "Marketcl!ng_" \o wf[r].body["country"] \o wf[r].body["postal_code"]
                           \o wf[r].body["email"]
            w == [Record(wf[r], "ghl", "createUser", ok, wf[r].agencyAccessToken,
                         wf[r].creationResponse.id) EXCEPT !.password = password]
        IN  IF ~ok
            THEN /\ Set(r, CatchError(w, "Error: GHL User Creation Failed"))
                 /\ UNCHANGED ghlUsers
            ELSE /\ Set(r, Goto(sendEvent(sendEvent(w, EvOneStepCloser), EvCommandCenter),
                                "childToken"))
                 /\ ghlUsers' = ghlUsers \cup { wf[r].body["email"] }
    /\ UNCHANGED << ghlLocations, ghlCustomValues, driveFolders, storeEnv, clockEnv, sched, cb >>

\* Step 4: ghlService.createUser with the derived password
CreateUser(r) ==
    /\ At(r, "createUser")
    /\ \E ok \in BOOLEAN :
        LET password == "Marketcl!ng_" \o wf[r].body["country"] \o wf[r].body["postal_code"]
            w == [Record(wf[r], "ghl", "createUser", ok, wf[r].agencyAccessToken,
                         wf[r].creationResponse.id) EXCEPT !.password = password]
        IN  IF ~ok
            THEN /\ Set(r, CatchError(w, "Error: GHL User Creation Failed"))
                 /\ UNCHANGED ghlUsers
            ELSE /\ Set(r, Goto(sendEvent(sendEvent(w, EvOneStepCloser), EvCommandCenter),
                                "childToken"))
                 /\ ghlUsers' = ghlUsers \cup { wf[r].body["email"] }
    /\ UNCHANGED << ghlLocations, ghlCustomValues, driveFolders, storeEnv, clockEnv, sched, cb >>

\* Step 5: ghlService.getLocationAccessToken for the new location
ChildToken(r) ==
    /\ At(r, "childToken")
    /\ \E ok \in BOOLEAN :
        LET w == Record(wf[r], "ghl", "getLocationAccessToken", ok, wf[r].agencyAccessToken,
                        wf[r].creationResponse.id)
        IN  IF ~ok THEN Set(r, CatchError(w, "Error: GHL Location Token Failed"))
            ELSE Set(r, [Goto(w, "delayFunnel") EXCEPT
                           !.childAccessToken = LocationToken(wf[r].creationResponse.id)])
    /\ UNCHANGED << wfEnv, storeEnv, clockEnv, sched, cb >>

DelayBeforeFunnel(r) == Delay(r, "delayFunnel", "10000", "getFunnelList")

\* Step 5: ghlService.getFunnelList; the request fails, or the platform answers with a
\* listing (kept in listed/funnels) from which the page id is extracted
GetFunnelList(r) ==
    /\ At(r, "getFunnelList")
    /\ \E ok \in BOOLEAN, funnels \in FunnelResponses :
        LET funnelPageID == IF ok THEN FunnelPageId(funnels) ELSE NoValue
            w == [Record(wf[r], "ghl", "getFunnelList", funnelPageID # NoValue,
                         wf[r].childAccessToken, wf[r].creationResponse.id)
                    EXCEPT !.listed = ok, !.funnels = IF ok THEN funnels ELSE << >>]
        IN  IF funnelPageID = NoValue
            THEN Set(r, CatchError(w, "Error: GHL Funnel List Failed"))
            ELSE Set(r, [Goto(sendEvent(w, EvOrganized), "driveFilesCreate") EXCEPT
                           !.commandCenterLink = funnelPageID])
    /\ UNCHANGED << wfEnv, storeEnv, clockEnv, sched, cb >>

\* Step 6, createFolder part 1: drive.files.create under the parent folder
DriveFilesCreate(r) ==
    /\ At(r, "driveFilesCreate")
    /\ \E ok \in BOOLEAN :
        LET w == Record(wf[r], "drive", "files.create", ok, NoToken, wf[r].creationResponse.name)
        IN  IF ~ok
            THEN /\ Set(r, Abort(w, EvFolderError))
                 /\ UNCHANGED driveFolders
            ELSE /\ Cardinality(driveFolders) < Len(FolderIds)
                 /\ LET id == FolderIds[Cardinality(driveFolders) + 1]
                    IN  /\ driveFolders' = driveFolders \cup
                              { [id |-> id, name |-> wf[r].creationResponse.name,
                                 parent |-> GOOGLE_DRIVE_PARENT_FOLDER_ID, writer |-> NoValue] }
                        /\ Set(r, [Goto(w, "drivePermissionsCreate") EXCEPT !.newFolder = id])
    /\ UNCHANGED << ghlUsers, ghlLocations, ghlCustomValues, storeEnv, clockEnv, sched, cb >>

\* a link to the parent folder instead of the new one
driveFolderLinkOfParent(folderId) ==
    "https://drive.google.com/drive/folders/" \o GOOGLE_DRIVE_PARENT_FOLDER_ID

driveFolderLink(folderId) == "https://drive.google.com/drive/folders/" \o folderId

\* a createFolder that swallows the error of the permission grant and returns the folder id
DrivePermissionsCreateSwallowsError(r) ==
    /\ At(r, "drivePermissionsCreate")
    /\ \E ok \in BOOLEAN :
        LET userEmail == wf[r].creationResponse.email
            w == Record(wf[r], "drive", "permissions.create", ok, NoToken, userEmail)
        IN  /\ driveFolders' =
                   IF ok THEN { IF f.id = wf[r].newFolder THEN [f EXCEPT !.writer = userEmail] ELSE f :
                                  f \in driveFolders }
                   ELSE driveFolders
            /\ Set(r, [Goto(sendEvent(sendEvent(w, EvFolderCreated), EvHangTight),
                            "parentToken") EXCEPT !.folderId = wf[r].newFolder])
    /\ UNCHANGED << ghlUsers, ghlLocations, ghlCustomValues, storeEnv, clockEnv, sched, cb >>

\* a createFolder that deletes the folder it created when the grant fails
DrivePermissionsCreateRemovesFolder(r) ==
    /\ At(r, "drivePermissionsCreate")
    /\ \E ok \in BOOLEAN :
        LET userEmail == wf[r].creationResponse.email
            w == Record(wf[r], "drive", "permissions.create", ok, NoToken, userEmail)
        IN  IF ~ok
            THEN /\ Set(r, Abort(w, EvFolderError))
                 /\ driveFolders' = { f \in driveFolders : f.id # wf[r].newFolder }
            ELSE /\ driveFolders' =
                        { IF f.id = wf[r].newFolder THEN [f EXCEPT !.writer = userEmail] ELSE f :
                            f \in driveFolders }
                 /\ Set(r, [Goto(sendEvent(sendEvent(w, EvFolderCreated), EvHangTight),
                                 "parentToken") EXCEPT !.folderId = wf[r].newFolder])
    /\ UNCHANGED << ghlUsers, ghlLocations, ghlCustomValues, storeEnv, clockEnv, sched, cb >>

\* Step 6, createFolder part 2: drive.permissions.create for creationResponse.email
DrivePermissionsCreate(r) ==
    /\ At(r, "drivePermissionsCreate")
    /\ \E ok \in BOOLEAN :
        LET userEmail == wf[r].creationResponse.email
            w == Record(wf[r], "drive", "permissions.create", ok, NoToken, userEmail)
        IN  IF ~ok
            THEN /\ Set(r, Abort(w, EvFolderError))
                 /\ UNCHANGED driveFolders
            ELSE /\ driveFolders' =
                        { IF f.id = wf[r].newFolder THEN [f EXCEPT !.writer = userEmail] ELSE f :
                            f \in driveFolders }
                 /\ Set(r, [Goto(sendEvent(sendEvent(w, EvFolderCreated), EvHangTight),
                                 "parentToken") EXCEPT !.folderId = wf[r].newFolder])
    /\ UNCHANGED << ghlUsers, ghlLocations, ghlCustomValues, storeEnv, clockEnv, sched, cb >>

\* a template sub-token request that reads the credential again
ParentTokenRereadsStore(r) ==
    /\ At(r, "parentToken")
    /\ \E ok \in BOOLEAN :
        LET w == Record(wf[r], "ghl", "getLocationAccessToken", ok,
                        findOne(store, GHL_AGENCY_COMPANY_ID).access_token,
                        GHL_PARENT_LOCATION_ID)
        IN  IF ~ok THEN Set(r, CatchError(w, "Error: GHL Location Token Failed"))
            ELSE Set(r, [Goto(w, "parentCustomValues") EXCEPT
                           !.parentAccessToken = LocationToken(GHL_PARENT_LOCATION_ID)])
    /\ UNCHANGED << wfEnv, storeEnv, clockEnv, sched, cb >>

\* Step 7: ghlService.getLocationAccessToken for the template location
ParentToken(r) ==
    /\ At(r, "parentToken")
    /\ \E ok \in BOOLEAN :
        LET w == Record(wf[r], "ghl", "getLocationAccessToken", ok, wf[r].agencyAccessToken,
                        GHL_PARENT_LOCATION_ID)
        IN  IF ~ok THEN Set(r, CatchError(w, "Error: GHL Location Token Failed"))
            ELSE Set(r, [Goto(w, "parentCustomValues") EXCEPT
                           !.parentAccessToken = LocationToken(GHL_PARENT_LOCATION_ID)])
    /\ UNCHANGED << wfEnv, storeEnv, clockEnv, sched, cb >>

\* a template fetch whose failure is taken for an empty template
GetParentCustomValuesTolerant(r) ==
    /\ At(r, "parentCustomValues")
    /\ \E ok \in BOOLEAN :
        LET w == Record(wf[r], "ghl", "getCustomValues", ok, wf[r].parentAccessToken,
                        GHL_PARENT_LOCATION_ID)
        IN  IF ~ok THEN Set(r, Goto(w, "delayChildValues"))
            ELSE Set(r, [Goto(w, "delayChildValues") EXCEPT
                           !.parentCustom = BuildCustom(ghlCustomValues[GHL_PARENT_LOCATION_ID])])
    /\ UNCHANGED << wfEnv, storeEnv, clockEnv, sched, cb >>

\* Step 7: ghlService.getCustomValues of the template location, then the forEach
GetParentCustomValues(r) ==
    /\ At(r, "parentCustomValues")
    /\ \E ok \in BOOLEAN :
        LET w == Record(wf[r], "ghl", "getCustomValues", ok, wf[r].parentAccessToken,
                        GHL_PARENT_LOCATION_ID)
        IN  IF ~ok THEN Set(r, CatchError(w, "Error: GHL Custom Values Failed"))
            ELSE Set(r, [Goto(w, "delayChildValues") EXCEPT
                           !.parentCustom = BuildCustom(ghlCustomValues[GHL_PARENT_LOCATION_ID])])
    /\ UNCHANGED << wfEnv, storeEnv, clockEnv, sched, cb >>

DelayBeforeChildValues(r) == Delay(r, "delayChildValues", "10000", "childCustomValues")

\* Step 7: ghlService.getCustomValues of the new location, then the forEach
GetChildCustomValues(r) ==
    /\ At(r, "childCustomValues")
    /\ \E ok \in BOOLEAN :
        LET w == Record(wf[r], "ghl", "getCustomValues", ok, wf[r].childAccessToken,
                        wf[r].creationResponse.id)
        IN  IF ~ok THEN Set(r, CatchError(w, "Error: GHL Custom Values Failed"))
            ELSE Set(r, [Goto(w, "delayUpdate") EXCEPT
                           !.childCustom = BuildCustom(ghlCustomValues[wf[r].creationResponse.id])])
    /\ UNCHANGED << wfEnv, storeEnv, clockEnv, sched, cb >>

DelayBeforeUpdate(r) == Delay(r, "delayUpdate", "5000", "syncLoop")

\* a loop that leaves only the command-centre field to the dedicated steps
IsSpecialOnlyCommand(fieldName) == fieldName = "Command Center Link Ending"

IsSpecial(fieldName) ==
    fieldName = "Client Assets Folder Link" \/ fieldName = "Command Center Link Ending"

\* an update call whose error is not caught where it is made
CallUpdateRethrows(w, ok, name) ==
    IF ok THEN Record(w, "ghl", "updateCustomValue", ok, w.childAccessToken, name)
    ELSE CatchError(Record(w, "ghl", "updateCustomValue", ok, w.childAccessToken, name),
                    "Error: GHL Custom Value Update Failed")

\* ghlService.updateCustomValue as the run sees it: one more awaited call
CallUpdate(w, ok, name) ==
    Record(w, "ghl", "updateCustomValue", ok, w.childAccessToken, name)

\* ghlService.updateCustomValue as the platform sees it: applied when it succeeds
ApplyUpdate(r, ok, customValueId, name, value) ==
    ghlCustomValues' =
        IF ok THEN PutCustomValue(ghlCustomValues, wf[r].creationResponse.id,
                                  customValueId, name, value)
        ELSE ghlCustomValues

\* Step 7: one iteration of "for (let fieldName of fieldsToSync)"
SyncField(r) ==
    /\ At(r, "syncLoop")
    /\ LET fieldName == fieldsToSync[wf[r].i]
           w == [wf[r] EXCEPT !.i = @ + 1,
                              !.pc = IF wf[r].i = Len(fieldsToSync)
                                     THEN "commandField" ELSE "syncLoop"]
       IN  IF ~IsSpecial(fieldName) /\ Present(wf[r].parentCustom[fieldName])
                                    /\ Present(wf[r].childCustom[fieldName])
           THEN \E ok \in BOOLEAN :       \* a failed update is caught and skipped
                   /\ Set(r, CallUpdate(w, ok, wf[r].parentCustom[fieldName].name))
                   /\ ApplyUpdate(r, ok, wf[r].childCustom[fieldName].id,
                                  wf[r].parentCustom[fieldName].name,
                                  wf[r].parentCustom[fieldName].value)
           ELSE /\ Set(r, w)
                /\ UNCHANGED ghlCustomValues
    /\ UNCHANGED << ghlUsers, ghlLocations, driveFolders, storeEnv, clockEnv, sched, cb >>

\* the "Command Center Link Ending" update without its try/catch
UpdateCommandFieldUncaught(r) ==
    /\ At(r, "commandField")
    /\ LET commandField == wf[r].childCustom["Command Center Link Ending"]
           w == Goto(wf[r], "clientAssetsField")
       IN  IF Present(commandField) /\ Truthy(wf[r].commandCenterLink)
           THEN \E ok \in BOOLEAN :
                   /\ Set(r, IF ok THEN CallUpdate(w, ok, "Command Center Link Ending")
                             ELSE CatchError(CallUpdate(w, ok, "Command Center Link Ending"),
                                             "Error: GHL Custom Value Update Failed"))
                   /\ ApplyUpdate(r, ok, commandField.id, "Command Center Link Ending",
                                  "/" \o wf[r].commandCenterLink)
           ELSE /\ Set(r, w)
                /\ UNCHANGED ghlCustomValues
    /\ UNCHANGED << ghlUsers, ghlLocations, driveFolders, storeEnv, clockEnv, sched, cb >>

\* Step 7: the "Command Center Link Ending" update, in its own try/catch
UpdateCommandField(r) ==
    /\ At(r, "commandField")
    /\ LET commandField == wf[r].childCustom["Command Center Link Ending"]
           w == Goto(wf[r], "clientAssetsField")
       IN  IF Present(commandField) /\ Truthy(wf[r].commandCenterLink)
           THEN \E ok \in BOOLEAN :
                   /\ Set(r, CallUpdate(w, ok, "Command Center Link Ending"))
                   /\ ApplyUpdate(r, ok, commandField.id, "Command Center Link Ending",
                                  "/" \o wf[r].commandCenterLink)
           ELSE /\ Set(r, w)
                /\ UNCHANGED ghlCustomValues
    /\ UNCHANGED << ghlUsers, ghlLocations, driveFolders, storeEnv, clockEnv, sched, cb >>

\* the closing events in the wrong order
SucceedGreatJobFirst(w) == Finish(resEnd(sendEvent(sendEvent(w, EvGreatJob), EvSuccess)))

\* the two closing events and res.end()
Succeed(w) == Finish(resEnd(sendEvent(sendEvent(w, EvSuccess), EvGreatJob)))

\* Step 7: the "Client Assets Folder Link" update, in its own try/catch; then the
\* final step: the success events and res.end()
UpdateClientAssetsField(r) ==
    /\ At(r, "clientAssetsField")
    /\ LET clientAssetsField == wf[r].childCustom["Client Assets Folder Link"]
       IN  IF Present(clientAssetsField)
           THEN \E ok \in BOOLEAN :
                   /\ Set(r, Succeed(CallUpdate(wf[r], ok, "Client Assets Folder Link")))
                   /\ ApplyUpdate(r, ok, clientAssetsField.id, "Client Assets Folder Link",
                                  driveFolderLink(wf[r].folderId))
           ELSE /\ Set(r, Succeed(wf[r]))
                /\ UNCHANGED ghlCustomValues
    /\ UNCHANGED << ghlUsers, ghlLocations, driveFolders, storeEnv, clockEnv, sched, cb >>

----------------------------------------------------------------------------
(* The platform's token endpoint (POST /oauth/token) *)

TTLs == { 200, 600 }          \* expires_in values the platform hands out, seconds

CompanyIds == { GHL_AGENCY_COMPANY_ID, "otherCompany", NoValue }

\* response.data of the k-th token response
TokenResponse(k, ttl, companyId, grant, presented) ==
    [access_token |-> AgencyToken(k), refresh_token |-> RefreshToken(k),
     expires_in |-> ttl, userId |-> "user" \o ToString(k), locationId |-> NoValue,
     companyId |-> companyId, grant |-> grant, presented |-> presented]

NoResponse == TokenResponse(0, 0, NoValue, "none", NoToken)

NothingIssued == [count |-> 0, last |-> NoResponse]

CanIssue == ghlIssued.count < MaxIssued

\* the token endpoint answers with `data`
Issue(data) == ghlIssued' = [count |-> ghlIssued.count + 1, last |-> data]

----------------------------------------------------------------------------
(* tokenRefreshJob: the cron callback *)

GracePeriod == 300                 \* seconds

Seconds(ms) == ms \div 1000        \* Math.floor(ms / 1000)

IdleJob ==
    [pc |-> "idle", startedAt |-> 0, currentTime |-> 0, credential |-> NoDoc,
     presented |-> NoToken, newCredentials |-> NoResponse, writeIssuedAt |-> 0,
     calls |-> << >>,
     outcome |-> "none", previous |-> "none", previousPresented |-> NoToken]

\* the expiry test with a strict comparison
TokenExpiringStrictly(currentTime, credential) ==
    LET tokenExpiryTime == Seconds(credential.created_at) + credential.expires_in
    IN  currentTime > tokenExpiryTime - GracePeriod

\* "if (currentTime >= tokenExpiryTime - 300)"
TokenExpiring(currentTime, credential) ==
    LET tokenExpiryTime == Seconds(credential.created_at) + credential.expires_in
    IN  currentTime >= tokenExpiryTime - GracePeriod

\* a $set that forgets created_at
RefreshedDocWithOldTimestamp(d, newCredentials, createdAt) ==
    [d EXCEPT !.access_token = newCredentials.access_token,
              !.refresh_token = newCredentials.refresh_token,
              !.expires_in = newCredentials.expires_in]

\* the $set of updateOne, applied to the document it matches
RefreshedDoc(d, newCredentials, createdAt) ==
    [d EXCEPT !.access_token = newCredentials.access_token,
              !.refresh_token = newCredentials.refresh_token,
              !.expires_in = newCredentials.expires_in,
              !.created_at = createdAt]

\* an updateOne whose $set carries the access token alone
updateOneAccessTokenOnly(coll, id, newCredentials, createdAt) ==
    { IF d._id = id THEN [d EXCEPT !.access_token = newCredentials.access_token] ELSE d :
        d \in coll }

\* OAuthCredentials.updateOne({ _id }, { $set })
updateOne(coll, id, newCredentials, createdAt) ==
    { IF d._id = id THEN RefreshedDoc(d, newCredentials, createdAt) ELSE d : d \in coll }

\* the end of one run of the callback; the cron schedule stays armed
EndRun(job, outcome) == [job EXCEPT !.pc = "done", !.outcome = outcome]

\* a refresh error that escapes and takes the schedule down
RefreshFailedAndStops(job) == [job EXCEPT !.pc = "stopped", !.outcome = "failed"]

\* the inner catch: the error is logged and the run ends
RefreshFailed(job) == EndRun(job, "failed")

JobAt(j, label) == j \in DOMAIN sched /\ sched[j].pc = label

SetJob(j, job) == sched' = [sched EXCEPT ![j] = job]

\* the schedule fires: a new run starts and reads the clock
CronFire(j) ==
    /\ j \in DOMAIN sched
    /\ sched[j].pc \in { "idle", "done" }
    /\ SetJob(j, [IdleJob EXCEPT !.pc = "findOne",
                                 !.startedAt = now,
                                 !.currentTime = Seconds(now),
                                 !.previous = sched[j].outcome,
                                 !.previousPresented =
                                     IF sched[j].outcome = "failed"
                                     THEN sched[j].credential.refresh_token ELSE NoToken])
    /\ UNCHANGED << wfEnv, storeEnv, clockEnv, wf, cb >>

\* OAuthCredentials.findOne returns; the expiry test
JobFindOne(j) ==
    /\ JobAt(j, "findOne")
    /\ LET credential == findOne(store, GHL_AGENCY_COMPANY_ID)
           job == [sched[j] EXCEPT !.calls = Append(@, "findOne"), !.credential = credential]
       IN  IF credential = NoDoc THEN SetJob(j, EndRun(job, "skipped"))
           ELSE IF TokenExpiring(job.currentTime, credential)
                THEN SetJob(j, [job EXCEPT !.pc = "refresh"])
                ELSE SetJob(j, EndRun(job, "valid"))
    /\ UNCHANGED << wfEnv, storeEnv, clockEnv, wf, cb >>

\* ghlService.refreshAccessToken(credential.refresh_token) returns or throws;
\* on success the update is built (created_at: new Date()) and updateOne is issued
JobRefresh(j) ==
    /\ JobAt(j, "refresh")
    /\ LET job == [sched[j] EXCEPT !.calls = Append(@, "refreshAccessToken"),
                                   !.presented = sched[j].credential.refresh_token]
       IN  \/ /\ SetJob(j, RefreshFailed(job))
              /\ UNCHANGED ghlIssued
           \/ /\ CanIssue
              /\ \E ttl \in TTLs :
                   LET data == TokenResponse(ghlIssued.count + 1, ttl, job.credential.companyId,
                                             "refresh_token", job.presented)
                   IN  /\ Issue(data)
                       /\ SetJob(j, [job EXCEPT !.pc = "updateOne",
                                                !.newCredentials = data,
                                                !.writeIssuedAt = now])
    /\ UNCHANGED << wfEnv, store, nextDocId, clockEnv, wf, cb >>

\* the updateOne commits
JobUpdateOne(j) ==
    /\ JobAt(j, "updateOne")
    /\ store' = updateOne(store, sched[j].credential._id, sched[j].newCredentials,
                          sched[j].writeIssuedAt)
    /\ SetJob(j, EndRun([sched[j] EXCEPT !.calls = Append(@, "updateOne")], "refreshed"))
    /\ UNCHANGED << wfEnv, nextDocId, ghlIssued, clockEnv, wf, cb >>

----------------------------------------------------------------------------
(* handleOAuthCallback (GET /api/auth/callback) *)

IdleCallback == [pc |-> "idle", status |-> 0, credentialsToSave |-> NoDoc, requests |-> 0]

\* res.status(200).send(...) or next(error) with error.statusCode
Respond(c, status) ==
    [cb EXCEPT ![c].pc = "done", ![c].status = status, ![c].credentialsToSave = NoDoc]

\* the request arrives; without a code it is rejected at once
CallbackArrives(c) ==
    /\ c \in DOMAIN cb
    /\ cb[c].pc \in { "idle", "done" }
    /\ cb[c].requests < MaxCallbacks
    /\ \E code \in { NoValue, "authCode" } :
          LET request == [IdleCallback EXCEPT !.requests = cb[c].requests + 1]
          IN  cb' = [cb EXCEPT ![c] =
                       IF ~Truthy(code) THEN [request EXCEPT !.pc = "done", !.status = 400]
                       ELSE [request EXCEPT !.pc = "exchange"]]
    /\ UNCHANGED << wfEnv, storeEnv, clockEnv, wf, sched >>

\* a callback that saves what it has when the exchange throws
CallbackExchangeSavesOnError(c) ==
    /\ c \in DOMAIN cb
    /\ cb[c].pc = "exchange"
    /\ \/ /\ cb' = Respond(c, 500)
          /\ store' = store \cup { Doc(nextDocId, NoValue, NoToken, NoToken, 0, now,
                                       NoValue, NoValue) }
          /\ nextDocId' = nextDocId + 1
          /\ UNCHANGED ghlIssued
       \/ /\ CanIssue
          /\ \E ttl \in TTLs, companyId \in CompanyIds :
               LET data == TokenResponse(ghlIssued.count + 1, ttl, companyId,
                                         "authorization_code", NoToken)
               IN  /\ Issue(data)
                   /\ cb' = IF ~Truthy(data.companyId) THEN Respond(c, 400)
                            ELSE [cb EXCEPT ![c].pc = "save",
                                            ![c].credentialsToSave =
                                                Doc(0, data.companyId, data.access_token,
                                                    data.refresh_token, data.expires_in, now,
                                                    data.userId, data.locationId)]
          /\ UNCHANGED << store, nextDocId >>
    /\ UNCHANGED << wfEnv, clockEnv, wf, sched >>

\* a callback that saves whatever the token response carries, companyId or not
CallbackExchangeWithoutOwnerCheck(c) ==
    /\ c \in DOMAIN cb
    /\ cb[c].pc = "exchange"
    /\ \/ /\ cb' = Respond(c, 500)
          /\ UNCHANGED ghlIssued
       \/ /\ CanIssue
          /\ \E ttl \in TTLs, companyId \in CompanyIds :
               LET data == TokenResponse(ghlIssued.count + 1, ttl, companyId,
                                         "authorization_code", NoToken)
               IN  /\ Issue(data)
                   /\ cb' = [cb EXCEPT ![c].pc = "save",
                                       ![c].credentialsToSave =
                                           Doc(0, data.companyId, data.access_token,
                                               data.refresh_token, data.expires_in, now,
                                               data.userId, data.locationId)]
    /\ UNCHANGED << wfEnv, store, nextDocId, clockEnv, wf, sched >>

\* ghlService.getAccessToken(code) returns or throws; the companyId check; the
\* document to save is built (created_at: new Date()) and findOneAndUpdate is issued
CallbackExchange(c) ==
    /\ c \in DOMAIN cb
    /\ cb[c].pc = "exchange"
    /\ \/ /\ cb' = Respond(c, 500)
          /\ UNCHANGED ghlIssued
       \/ /\ CanIssue
          /\ \E ttl \in TTLs, companyId \in CompanyIds :
               LET data == TokenResponse(ghlIssued.count + 1, ttl, companyId,
                                         "authorization_code", NoToken)
               IN  /\ Issue(data)
                   /\ cb' = IF ~Truthy(data.companyId) THEN Respond(c, 400)
                            ELSE [cb EXCEPT ![c].pc = "save",
                                            ![c].credentialsToSave =
                                                Doc(0, data.companyId, data.access_token,
                                                    data.refresh_token, data.expires_in, now,
                                                    data.userId, data.locationId)]
    /\ UNCHANGED << wfEnv, store, nextDocId, clockEnv, wf, sched >>

\* findOneAndUpdate({ companyId }, credentialsToSave, { upsert: true }); whether an
\* undefined field of the update is dropped or stored depends on the Mongoose version
findOneAndUpdate(coll, id, update, dropUndefined) ==
    LET old == findOne(coll, update.companyId)
        keep(new, was) == IF dropUndefined /\ new = NoValue THEN was ELSE new
    IN  IF old = NoDoc
        THEN coll \cup { [update EXCEPT !._id = id] }
        ELSE (coll \ { old }) \cup
                 { [update EXCEPT !._id = old._id,
                                  !.userId = keep(update.userId, old.userId),
                                  !.locationId = keep(update.locationId, old.locationId)] }

\* a collection whose index on companyId is not unique
IndexAcceptsAnything(coll, doc) == FALSE

\* OAuthCredentialsSchema.index({ companyId: 1 }, { unique: true }): an insert of a
\* second document of the same companyId is rejected
UniqueIndexRejects(coll, doc) == \E d \in coll : d.companyId = doc.companyId

\* the store runs the upsert's query: a matching document is updated in place
\* and the callback answers 200; with no match the upsert goes on to insert
CallbackSave(c) ==
    /\ c \in DOMAIN cb
    /\ cb[c].pc = "save"
    /\ IF findOne(store, cb[c].credentialsToSave.companyId) # NoDoc
       THEN /\ \E dropUndefined \in BOOLEAN :
                  store' = findOneAndUpdate(store, nextDocId, cb[c].credentialsToSave,
                                            dropUndefined)
            /\ cb' = Respond(c, 200)
       ELSE /\ cb' = [cb EXCEPT ![c].pc = "insert"]
            /\ UNCHANGED store
    /\ UNCHANGED << wfEnv, nextDocId, ghlIssued, clockEnv, wf, sched >>

\* the upsert's insert: it commits and the callback answers 200, unless another
\* request inserted the same companyId meanwhile; then the unique index rejects
\* it and the store either retries the upsert as an update or returns the
\* duplicate-key error, which the catch block turns into a 500
CallbackInsert(c) ==
    /\ c \in DOMAIN cb
    /\ cb[c].pc = "insert"
    /\ LET doc == [cb[c].credentialsToSave EXCEPT !._id = nextDocId]
       IN  IF UniqueIndexRejects(store, doc)
           THEN \/ /\ \E dropUndefined \in BOOLEAN :
                         store' = findOneAndUpdate(store, nextDocId, cb[c].credentialsToSave,
                                                   dropUndefined)
                   /\ cb' = Respond(c, 200)
                   /\ UNCHANGED nextDocId
                \/ /\ cb' = Respond(c, 500)
                   /\ UNCHANGED << store, nextDocId >>
           ELSE /\ store' = store \cup { doc }
                /\ nextDocId' = nextDocId + 1
                /\ cb' = Respond(c, 200)
    /\ UNCHANGED << wfEnv, ghlIssued, clockEnv, wf, sched >>

----------------
(* The clock *)

ClockSteps == { 500, 299500 }          \* milliseconds

\* time passes, at most `limit` times in one behaviour
Elapse(limit) ==
    /\ ticks < limit
    /\ \E d \in ClockSteps : now' = now + d
    /\ ticks' = ticks + 1
    /\ UNCHANGED << wfEnv, storeEnv, wf, sched, cb >>

Tick == Elapse(MaxTicks)

----------------------------------------------------------------------------
(* Initial contents of the environment *)

\* the agency's credential as a first authorization left it, and other contents of the collection
InitialStores ==
    { {},
      { Doc(1, GHL_AGENCY_COMPANY_ID, AgencyToken(0), RefreshToken(0), 600, 0, "user0", NoValue) },
      { Doc(1, GHL_AGENCY_COMPANY_ID, NoToken, RefreshToken(0), 600, 0, "user0", NoValue) },
      { Doc(1, "otherCompany", AgencyToken(0), RefreshToken(0), 600, 0, "user9", NoValue) } }

NoSched == [j \in {} |-> IdleJob]

NoCallbacks == [c \in {} |-> IdleCallback]

\* one provisioning request arrives at a server whose scheduler and callback are idle
InitWorkflow ==
    /\ store \in InitialStores
    /\ nextDocId = 2
    /\ ghlUsers \in { {}, { SampleBody["email"] } }
    /\ ghlLocations = {}
    /\ \E parentValues \in ParentFieldConfigs :
          ghlCustomValues = [l \in AllLocations |->
                               IF l = GHL_PARENT_LOCATION_ID THEN parentValues ELSE << >>]
    /\ ghlIssued = NothingIssued
    /\ driveFolders = {}
    /\ \E body \in Requests : wf = [r \in { "run1" } |-> NewRun(body)]
    /\ now = 0
    /\ ticks = 0
    /\ sched = NoSched
    /\ cb = NoCallbacks

NextWorkflow ==
    \/ \E r \in DOMAIN wf : Validate(r)
    \/ \E r \in DOMAIN wf : FindCredentials(r)
    \/ \E r \in DOMAIN wf : CheckUserExists(r)
    \/ \E r \in DOMAIN wf : CreateAccount(r)
    \/ \E r \in DOMAIN wf : DelayBeforeUser(r)
    \/ \E r \in DOMAIN wf : CreateUser(r)
    \/ \E r \in DOMAIN wf : ChildToken(r)
    \/ \E r \in DOMAIN wf : DelayBeforeFunnel(r)
    \/ \E r \in DOMAIN wf : GetFunnelList(r)
    \/ \E r \in DOMAIN wf : DriveFilesCreate(r)
    \/ \E r \in DOMAIN wf : DrivePermissionsCreate(r)
    \/ \E r \in DOMAIN wf : ParentToken(r)
    \/ \E r \in DOMAIN wf : GetParentCustomValues(r)
    \/ \E r \in DOMAIN wf : DelayBeforeChildValues(r)
    \/ \E r \in DOMAIN wf : GetChildCustomValues(r)
    \/ \E r \in DOMAIN wf : DelayBeforeUpdate(r)
    \/ \E r \in DOMAIN wf : SyncField(r)
    \/ \E r \in DOMAIN wf : UpdateCommandField(r)
    \/ \E r \in DOMAIN wf : UpdateClientAssetsField(r)

SpecWorkflow == InitWorkflow /\ [][NextWorkflow]_vars

----------------------------------------------------------------------------
(* Reading a run's history *)

IsPrefix(s, t) == Len(s) <= Len(t) /\ \A k \in DOMAIN s : s[k] = t[k]

IsExternal(c) == c.kind # "delay"

ExternalCalls(w) == SelectSeq(w.trace, IsExternal)

AllReturned(w) == \A k \in DOMAIN w.trace : w.trace[k].ok

Called(w, op) == \E k \in DOMAIN w.trace : w.trace[k].op = op

Succeeded(w, op) == \E k \in DOMAIN w.trace : w.trace[k].op = op /\ w.trace[k].ok

FailureEvents(w) == SelectSeq(w.events, LAMBDA e : e.fail)

\* the e-mail was on the platform before the run created anything
EmailPreexisted(w) == w.body["email"] \in ghlUsers /\ ~Succeeded(w, "createUser")

\* the documents stored for the configured company
AgencyDocs == { d \in store : d.companyId = GHL_AGENCY_COMPANY_ID }

\* the store holds a credential with an access token for the configured company
Authorized == AgencyDocs # {} /\ \A d \in AgencyDocs : TokenTruthy(d.access_token)

SuccessEvents ==
    << EvValidating, EvCreating, EvWelcome, EvUserProfile, EvOneStepCloser, EvCommandCenter,
       EvOrganized, EvFolderCreated, EvHangTight, EvSuccess, EvGreatJob >>

\* the ten required fields as the interface names them; the business name may
\* come under either of its two keys
RequiredFieldMissing(body) ==
    \/ \E k \in { "first_name", "last_name", "email", "phone", "address1", "city",
                  "state", "country", "postal_code" } : body[k] = NoValue
    \/ body["Business Name"] = NoValue /\ body["business_name"] = NoValue

----------------------------------------------------------------------------
(* C1: a run with every required field, a stored credential, an e-mail that was
   not on the platform and no failing call emits exactly the eleven progress
   messages of the code in their program order: at every moment the events
   written so far are a prefix of that list, and the finished run has written
   all of it. *)
C1_FixedEventOrder ==
    \A r \in DOMAIN wf :
        LET w == wf[r]
        IN  (~RequiredFieldMissing(w.body) /\ Authorized /\ ~EmailPreexisted(w) /\ AllReturned(w))
            => /\ IsPrefix(w.events, SuccessEvents)
               /\ (w.pc = "done" => w.events = SuccessEvents)

C1_Witness ==
    \E r \in DOMAIN wf :
        /\ wf[r].pc = "done"
        /\ AllReturned(wf[r])
        /\ wf[r].events = SuccessEvents
        /\ Succeeded(wf[r], "updateCustomValue")

(* C2: on every path the stream is ended exactly once, when the run finishes,
   and nothing is written after it was ended. *)
C2_EndedExactlyOnce ==
    \A r \in DOMAIN wf :
        /\ wf[r].lateWrites = 0
        /\ wf[r].ended = (IF wf[r].pc = "done" THEN 1 ELSE 0)

C2_Witness ==
    \E r \in DOMAIN wf :
        /\ wf[r].pc = "done"
        /\ wf[r].ended = 1
        /\ Called(wf[r], "permissions.create")
        /\ ~AllReturned(wf[r])
        /\ Len(wf[r].events) > 1

FatalOps == { "checkUserExists", "createAccount", "createUser", "getLocationAccessToken",
              "getFunnelList", "files.create", "permissions.create", "getCustomValues" }

(* C3: a failed fatal step is the last operation of the run: nothing (no call, no
   delay) follows it, the run has emitted exactly one failure event, as its last
   event, and the stream is closed. *)
C3_FatalFailureAborts ==
    \A r \in DOMAIN wf :
        \A k \in DOMAIN wf[r].trace :
            (wf[r].trace[k].op \in FatalOps /\ ~wf[r].trace[k].ok)
            => /\ k = Len(wf[r].trace)
               /\ wf[r].pc = "done"
               /\ wf[r].ended = 1
               /\ Len(FailureEvents(wf[r])) = 1
               /\ wf[r].events[Len(wf[r].events)].fail

C3_Witness ==
    \E r \in DOMAIN wf :
        LET t == wf[r].trace
        IN  /\ Len(t) > 0
            /\ t[Len(t)].op = "getCustomValues"
            /\ t[Len(t)].target # GHL_PARENT_LOCATION_ID
            /\ ~t[Len(t)].ok
            /\ wf[r].pc = "done"

(* C4: a request that lacks one of the ten required fields makes no external
   call at all (no store read, no platform call, no storage call, no delay), and
   its run ends with the single event "Missing required fields" and a closed
   stream. *)
C4_MissingFieldNoCalls ==
    \A r \in DOMAIN wf :
        RequiredFieldMissing(wf[r].body)
        => /\ wf[r].trace = << >>
           /\ wf[r].pc \in { "validate", "done" }
           /\ (wf[r].pc = "done" => wf[r].events = << EvMissingFields >> /\ wf[r].ended = 1)
           /\ (wf[r].pc = "validate" => wf[r].events = << >> /\ wf[r].ended = 0)

C4_Witness ==
    \E r \in DOMAIN wf :
        /\ wf[r].body["Business Name"] = NoValue
        /\ wf[r].body["business_name"] = NoValue
        /\ wf[r].pc = "done"
        /\ wf[r].events = << EvMissingFields >>

(* C5: when the e-mail of a valid request is already on the platform and the
   uniqueness check has returned, the run is over with exactly one event, the
   failure "User already exists"; the check is the last call and createAccount
   was never called. *)
C5_ExistingEmailStops ==
    \A r \in DOMAIN wf :
        LET w == wf[r]
        IN  (EmailPreexisted(w) /\ Succeeded(w, "checkUserExists"))
            => /\ w.pc = "done"
               /\ w.events = << EvUserExists >>
               /\ w.ended = 1
               /\ w.trace[Len(w.trace)].op = "checkUserExists"
               /\ ~Called(w, "createAccount")

C5_Witness ==
    \E r \in DOMAIN wf :
        /\ EmailPreexisted(wf[r])
        /\ Succeeded(wf[r], "checkUserExists")
        /\ wf[r].events = << EvUserExists >>

(* C6: with no credential stored for the configured company, or one without an
   access token, a run never calls the platform or the storage provider; once
   it has read the store it is over, with the single failure event "Access
   token not available" and a closed stream. *)
C6_NoCredentialNoCalls ==
    \A r \in DOMAIN wf :
        LET w == wf[r]
        IN  ~Authorized
            => /\ \A k \in DOMAIN w.trace : w.trace[k].kind = "store"
               /\ (Called(w, "findOne")
                   => w.pc = "done" /\ w.events = << EvNoToken >> /\ w.ended = 1)

C6_Witness ==
    \E r \in DOMAIN wf :
        /\ AgencyDocs = {}
        /\ store # {}
        /\ Called(wf[r], "findOne")
        /\ wf[r].events = << EvNoToken >>

C6_WitnessNoAccessToken ==
    \E r \in DOMAIN wf :
        /\ AgencyDocs # {}
        /\ ~Authorized
        /\ wf[r].events = << EvNoToken >>

----------------------------------------------------------------------------
(* The token lifecycle: the cron job, authorization callbacks and the clock *)

InitScheduler ==
    /\ store \in InitialStores
    /\ nextDocId = 2
    /\ ghlUsers = {}
    /\ ghlLocations = {}
    /\ ghlCustomValues = [l \in AllLocations |-> << >>]
    /\ ghlIssued = NothingIssued
    /\ driveFolders = {}
    /\ wf = [r \in {} |-> NewRun(SampleBody)]
    /\ now = 0
    /\ ticks = 0
    /\ sched = [j \in { "job1" } |-> IdleJob]
    /\ cb = [c \in { "callback1" } |-> IdleCallback]

NextScheduler ==
    \/ \E j \in DOMAIN sched : CronFire(j)
    \/ \E j \in DOMAIN sched : JobFindOne(j)
    \/ \E j \in DOMAIN sched : JobRefresh(j)
    \/ \E j \in DOMAIN sched : JobUpdateOne(j)
    \/ \E c \in DOMAIN cb : CallbackArrives(c)
    \/ \E c \in DOMAIN cb : CallbackExchange(c)
    \/ \E c \in DOMAIN cb : CallbackSave(c)
    \/ \E c \in DOMAIN cb : CallbackInsert(c)
    \/ Tick

SpecScheduler == InitScheduler /\ [][NextScheduler]_vars

----------------------------------------------------------------------------
(* Reading a scheduler run *)

JobCalled(job, op) == \E k \in DOMAIN job.calls : job.calls[k] = op

\* the firing condition, in whole seconds, with the clock read when the run started
FiringCondition(job) ==
    (job.startedAt \div 1000) >=
        (job.credential.created_at \div 1000) + job.credential.expires_in - 300

(* C7: in a run that found a credential, the refresh operation is called if and
   only if floor(now) >= floor(issuedAt) + expiresIn - 300, now being the clock
   at the start of the run; a run whose condition is false calls neither the
   platform nor updateOne. *)
C7_RefreshIffDue ==
    \A j \in DOMAIN sched :
        LET job == sched[j]
        IN  job.credential # NoDoc
            => /\ (job.pc = "refresh" => FiringCondition(job))
               /\ (JobCalled(job, "refreshAccessToken") => FiringCondition(job))
               /\ (job.pc = "done" => (JobCalled(job, "refreshAccessToken") <=> FiringCondition(job)))
               /\ (~FiringCondition(job) => job.calls = << "findOne" >>)

\* a run that fires exactly on the boundary, for a credential issued off a whole second
C7_Witness ==
    \E j \in DOMAIN sched :
        LET job == sched[j]
        IN  /\ job.credential # NoDoc
            /\ JobCalled(job, "refreshAccessToken")
            /\ job.credential.created_at % 1000 # 0
            /\ (job.startedAt \div 1000) =
                   (job.credential.created_at \div 1000) + job.credential.expires_in - 300

C7_WitnessNotDue ==
    \E j \in DOMAIN sched :
        /\ sched[j].pc = "done"
        /\ sched[j].outcome = "valid"
        /\ sched[j].startedAt > 0

(* C8: the step that commits the scheduler's write replaces, in the document the
   run had read, the access token, the refresh token and the TTL by those of the
   refresh response and created_at by the clock read when the write was issued
   (between the start of the run and the commit); the new access token differs
   from the one the run had read; companyId, userId and locationId of that
   document, and every other document, are unchanged. *)
C8_RefreshOverwrites ==
    [][ \A j \in DOMAIN sched :
          (sched[j].pc = "updateOne" /\ sched'[j].pc = "done")
          => LET job == sched[j]
                 data == job.newCredentials
             IN  /\ data.grant = "refresh_token"
                 /\ data.presented = job.credential.refresh_token
                 /\ job.startedAt <= job.writeIssuedAt /\ job.writeIssuedAt <= now
                 /\ { d \in store' : d._id # job.credential._id } =
                        { d \in store : d._id # job.credential._id }
                 /\ \A d \in store :
                        d._id = job.credential._id
                        => \E e \in store' :
                              /\ e._id = d._id
                              /\ e.access_token = data.access_token
                              /\ e.refresh_token = data.refresh_token
                              /\ e.expires_in = data.expires_in
                              /\ e.created_at = job.writeIssuedAt
                              /\ e.access_token # job.credential.access_token
                              /\ e.companyId = d.companyId
                              /\ e.userId = d.userId
                              /\ e.locationId = d.locationId ]_vars

\* a committed refresh, some time after the credential was issued
C8_Witness ==
    \E j \in DOMAIN sched :
        LET job == sched[j]
        IN  /\ job.pc = "done"
            /\ job.outcome = "refreshed"
            /\ job.writeIssuedAt > job.credential.created_at
            /\ \E d \in store :
                  /\ d._id = job.credential._id
                  /\ d.access_token = job.newCredentials.access_token
                  /\ d.created_at = job.writeIssuedAt
                  /\ d.userId # job.newCredentials.userId

(* C9: the step in which the refresh call fails changes nothing in the store;
   the failed run has issued no write and the schedule can fire again; and a
   run that follows a failed one and finds its firing condition true calls the
   refresh again, at once, presenting the refresh token it read from the store. *)
C9_FailureLeftForNextRun ==
    /\ [][ \A j \in DOMAIN sched :
             (sched[j].pc = "refresh" /\ sched'[j].outcome = "failed")
             => store' = store /\ ghlIssued' = ghlIssued ]_vars
    /\ [](\A j \in DOMAIN sched :
             LET job == sched[j]
             IN  /\ job.outcome = "failed"
                    => /\ ~JobCalled(job, "updateOne")
                       /\ ENABLED CronFire(j)
                 /\ (job.previous = "failed" /\ job.credential # NoDoc)
                    => /\ (job.pc = "done"
                           => (FiringCondition(job) <=> JobCalled(job, "refreshAccessToken")))
                       /\ (JobCalled(job, "refreshAccessToken")
                           => job.presented = job.credential.refresh_token))

\* two failed refreshes in a row, the second presenting the same refresh token, with
\* no time between the two runs
C9_Witness ==
    \E j \in DOMAIN sched :
        LET job == sched[j]
        IN  /\ job.previous = "failed"
            /\ job.outcome = "failed"
            /\ job.presented = job.previousPresented
            /\ job.presented # NoToken
            /\ \E d \in store : d.refresh_token = job.presented

(* C10: the step of a run whose findOne finds no document of the configured
   company ends the run, as skipped, and changes neither the store nor the
   platform; a skipped run has made no other call than that findOne. *)
C10_NoCredentialNoOp ==
    /\ [][ \A j \in DOMAIN sched :
             (sched[j].pc = "findOne" /\ sched'[j] # sched[j] /\ AgencyDocs = {})
             => /\ store' = store
                /\ ghlIssued' = ghlIssued
                /\ sched'[j].pc = "done"
                /\ sched'[j].outcome = "skipped"
                /\ sched'[j].calls = << "findOne" >> ]_vars
    /\ [](\A j \in DOMAIN sched :
             sched[j].outcome = "skipped"
             => sched[j].calls = << "findOne" >> /\ sched[j].credential = NoDoc)

\* a skipped run over a store that holds another company's credential, which is due
C10_Witness ==
    \E j \in DOMAIN sched :
        /\ sched[j].outcome = "skipped"
        /\ AgencyDocs = {}
        /\ \E d \in store : (sched[j].startedAt \div 1000) >= (d.created_at \div 1000) + d.expires_in - 300

----------------------------------------------------------------------------
(* The scheduler on its cadence: a freshly authorized credential, runs that
   start at most one cron interval apart, refreshes that succeed and TTLs
   longer than the grace period *)

CronInterval == 300000             \* "*/5 * * * *", milliseconds

\* a credential authorized at the moment the behaviour starts
FreshStores ==
    { { Doc(1, GHL_AGENCY_COMPANY_ID, AgencyToken(0), RefreshToken(0), ttl, 0, "user0", NoValue) } :
        ttl \in { t \in TTLs \cup { GracePeriod + 1 } : t > GracePeriod } }

InitCadence ==
    /\ store \in FreshStores
    /\ nextDocId = 2
    /\ ghlUsers = {}
    /\ ghlLocations = {}
    /\ ghlCustomValues = [l \in AllLocations |-> << >>]
    /\ ghlIssued = NothingIssued
    /\ driveFolders = {}
    /\ wf = [r \in {} |-> NewRun(SampleBody)]
    /\ now = 0
    /\ ticks = 0
    /\ sched = [j \in { "job1" } |-> IdleJob]
    /\ cb = NoCallbacks

\* the schedule fires no later than one interval after the previous run started
\* (the first run: after the authorization)
CadenceFire(j) ==
    /\ j \in DOMAIN sched
    /\ now - sched[j].startedAt <= CronInterval
    /\ CronFire(j)

\* the refresh call succeeds, with a TTL longer than the grace period
CadenceRefresh(j) ==
    /\ JobRefresh(j)
    /\ sched'[j].outcome # "failed"
    /\ ghlIssued'.last.expires_in > GracePeriod

CadenceTick == Elapse(MaxCadenceTicks)

NextCadence ==
    \/ \E j \in DOMAIN sched : CadenceFire(j)
    \/ \E j \in DOMAIN sched : JobFindOne(j)
    \/ \E j \in DOMAIN sched : CadenceRefresh(j)
    \/ \E j \in DOMAIN sched : JobUpdateOne(j)
    \/ CadenceTick

SpecCadence == InitCadence /\ [][NextCadence]_vars

\* the absolute expiry instant of a credential, milliseconds
ExpiryInstant(credential) == credential.created_at + 1000 * credential.expires_in

(* C11: with runs at most 300 seconds apart, TTLs above 300 seconds and
   refreshes that succeed, at the moment a run issues the refresh call (the
   step in which its findOne returns and the expiry test passes) the stored
   token has not reached its expiry instant: now < issuedAt + expiresIn. *)
C11_RefreshedBeforeExpiry ==
    [][ \A j \in DOMAIN sched :
          (sched[j].pc = "findOne" /\ sched'[j].pc = "refresh")
          => now' < ExpiryInstant(sched'[j].credential) ]_vars

\* the same bound for the clock the run read when it started
C11_FreshAtRunStart ==
    \A j \in DOMAIN sched :
        JobCalled(sched[j], "refreshAccessToken") \/ sched[j].pc = "refresh"
        => sched[j].startedAt < ExpiryInstant(sched[j].credential)

\* a refresh issued with less than a second, at the run's start, before the expiry
C11_WitnessAtRunStart ==
    \E j \in DOMAIN sched :
        /\ sched[j].pc = "refresh"
        /\ sched[j].previous = "valid"
        /\ ExpiryInstant(sched[j].credential) - sched[j].startedAt <= 1000

----------------------------------------------------------------------------
(* The Credential Store under concurrent writers: two authorization callbacks
   in flight at once and the cron job, five minutes after the server started *)

InitStore ==
    /\ store \in InitialStores
    /\ nextDocId = 2
    /\ ghlUsers = {}
    /\ ghlLocations = {}
    /\ ghlCustomValues = [l \in AllLocations |-> << >>]
    /\ ghlIssued = NothingIssued
    /\ driveFolders = {}
    /\ wf = [r \in {} |-> NewRun(SampleBody)]
    /\ now = CronInterval
    /\ ticks = 0
    /\ sched = [j \in { "job1" } |-> IdleJob]
    /\ cb = [c \in { "callback1", "callback2" } |-> IdleCallback]

NextStore ==
    \/ \E j \in DOMAIN sched : CronFire(j)
    \/ \E j \in DOMAIN sched : JobFindOne(j)
    \/ \E j \in DOMAIN sched : JobRefresh(j)
    \/ \E j \in DOMAIN sched : JobUpdateOne(j)
    \/ \E c \in DOMAIN cb : CallbackArrives(c)
    \/ \E c \in DOMAIN cb : CallbackExchange(c)
    \/ \E c \in DOMAIN cb : CallbackSave(c)
    \/ \E c \in DOMAIN cb : CallbackInsert(c)

SpecStore == InitStore /\ [][NextStore]_vars

OwnerIds == { d.companyId : d \in store }

(* C12: whatever the interleaving of authorization callbacks and scheduler
   refreshes, the store holds at most one record per ownerId (companyId), and
   the step of a callback that saves for a companyId already stored replaces
   that record: the number of records does not grow. *)
C12_OneRecordPerOwner ==
    /\ [](Cardinality(store) = Cardinality(OwnerIds))
    /\ [][ \A c \in DOMAIN cb :
             (cb[c].pc \in { "save", "insert" } /\ cb'[c].pc = "done"
                /\ cb[c].credentialsToSave.companyId \in OwnerIds)
             => /\ Cardinality(store') = Cardinality(store)
                /\ { d._id : d \in store' } = { d._id : d \in store } ]_vars

\* two callbacks for the same new owner raced to insert: both exchanged their code
\* and found no record, one inserted, the other got the duplicate-key error
C12_Witness ==
    \E c, e \in DOMAIN cb :
        /\ c # e
        /\ cb[c].pc = "done" /\ cb[c].status = 200 /\ cb[c].requests = 1
        /\ cb[e].pc = "done" /\ cb[e].status = 500 /\ cb[e].requests = 1
        /\ ghlIssued.count = 2
        /\ \A j \in DOMAIN sched : sched[j].pc = "idle"
        /\ Cardinality(store) = 1
        /\ \E d \in store : d._id = 2

----------------------------------------------------------------------------
(* Reading the platform's custom values *)

SpecialFields == { "Command Center Link Ending", "Client Assets Folder Link" }

\* the values the location holds in fields of the given name
ValuesOf(locationId, name) ==
    { ghlCustomValues[locationId][k].value :
        k \in { k \in DOMAIN ghlCustomValues[locationId] :
                  ghlCustomValues[locationId][k].name = name } }

\* the loop over fieldsToSync is over
SyncLoopOver(w) == w.i > Len(fieldsToSync)

UpdateCalls(w) == SelectSeq(w.trace, LAMBDA c : c.op = "updateCustomValue")

(* C13: once the loop over the allow list is over and every update call so far
   has succeeded, for every allow-listed, non-special name that both the
   template location and the new location have a field of, the new location's
   field of that name holds the template's value. *)
C13_TemplateValuesCopied ==
    \A r \in DOMAIN wf :
        LET w == wf[r]
        IN  (SyncLoopOver(w) /\ AllReturned(w))
            => \A n \in AllowList \ SpecialFields :
                  (ValuesOf(GHL_PARENT_LOCATION_ID, n) # {} /\ ValuesOf(w.creationResponse.id, n) # {})
                  => ValuesOf(w.creationResponse.id, n) = ValuesOf(GHL_PARENT_LOCATION_ID, n)

\* two fields copied, in a location that also has a field the template lacks
C13_Witness ==
    \E r \in DOMAIN wf :
        LET w == wf[r]
        IN  /\ SyncLoopOver(w) /\ AllReturned(w)
            /\ Len(UpdateCalls(w)) >= 2
            /\ ValuesOf(w.creationResponse.id, "Agency Name") = { "Clingy" }
            /\ ValuesOf(w.creationResponse.id, "Agency Color 1") = { "#112233" }
            /\ ValuesOf(w.creationResponse.id, "Unlisted Field") = { "" }

\* the update calls of the loop over the allow list
GenericCalls(w) ==
    SelectSeq(w.trace, LAMBDA c : c.op = "updateCustomValue" /\ c.target \notin SpecialFields)

\* the allow-listed, non-special names both locations have a field of, in allow-list order
SharedGenericFields(w) ==
    SelectSeq(fieldsToSync,
              LAMBDA n : /\ n \notin SpecialFields
                         /\ ValuesOf(GHL_PARENT_LOCATION_ID, n) # {}
                         /\ ValuesOf(w.creationResponse.id, n) # {})

Targets(calls) == [k \in DOMAIN calls |-> calls[k].target]

(* C14: a failed update of a generic field does not abort the run. Whatever
   subset of the updates fails, the loop calls the update for every
   allow-listed, non-special field both locations have, in allow-list order
   (a prefix of that list while the loop runs, all of it once it is over);
   a field whose update succeeded holds the template's value; the loop can
   always take its next step; and a run that is over after a failed generic
   update has emitted all the success events and closed the stream. *)
C14_FailedUpdateSkipped ==
    \A r \in DOMAIN wf :
        LET w == wf[r]
            calls == GenericCalls(w)
        IN  /\ calls # << >> => IsPrefix(Targets(calls), SharedGenericFields(w))
            /\ SyncLoopOver(w) => Targets(calls) = SharedGenericFields(w)
            /\ \A k \in DOMAIN calls :
                  calls[k].ok => ValuesOf(w.creationResponse.id, calls[k].target) =
                                     ValuesOf(GHL_PARENT_LOCATION_ID, calls[k].target)
            /\ w.pc = "syncLoop" => ENABLED SyncField(r)
            /\ ((\E k \in DOMAIN calls : ~calls[k].ok) /\ w.pc = "done")
               => w.events = SuccessEvents /\ w.ended = 1

\* the first field's update failed, the second field was still updated, and the run succeeded
C14_Witness ==
    \E r \in DOMAIN wf :
        LET w == wf[r]
            calls == GenericCalls(w)
        IN  /\ w.pc = "done"
            /\ Len(calls) = 2
            /\ ~calls[1].ok /\ calls[1].target = "Agency Color 1"
            /\ calls[2].ok /\ calls[2].target = "Agency Name"
            /\ ValuesOf(w.creationResponse.id, "Agency Color 1") = { "" }
            /\ ValuesOf(w.creationResponse.id, "Agency Name") = { "Clingy" }
            /\ w.events[Len(w.events)] = EvGreatJob

\* the value a special field is to get in this run
DerivedValues(w, name) ==
    IF name = "Command Center Link Ending"
    THEN { "/" \o p : p \in { w.commandCenterLink } \ { NoValue } }
    ELSE { "https://drive.google.com/drive/folders/" \o f.id :
             f \in { f \in driveFolders : f.id = w.folderId } }

(* C15: every step that changes a field named 'Command Center Link Ending' or
   'Client Assets Folder Link' of the new location leaves its id and name alone
   and sets its value to the derived one: '/' followed by the page id this run
   resolved, respectively the folder URL of the folder this run created, and
   never to a value the template holds under that name; and after a successful
   update call for a special field the field holds that derived value. *)
C15_SpecialFieldsDerived ==
    /\ [][ \A r \in DOMAIN wf :
             LET loc == wf[r].creationResponse.id
             IN  loc # NoValue
                 => \A k \in DOMAIN ghlCustomValues[loc] :
                       LET old == ghlCustomValues[loc][k]
                           new == ghlCustomValues'[loc][k]
                       IN  (new # old /\ (old.name \in SpecialFields \/ new.name \in SpecialFields))
                           => /\ new.id = old.id
                              /\ new.name = old.name
                              /\ new.value \in DerivedValues(wf[r], old.name)
                              /\ new.value \notin ValuesOf(GHL_PARENT_LOCATION_ID, old.name) ]_vars
    /\ [](\A r \in DOMAIN wf :
             \A k \in DOMAIN wf[r].trace :
                LET c == wf[r].trace[k]
                IN  (c.op = "updateCustomValue" /\ c.ok /\ c.target \in SpecialFields)
                    => /\ DerivedValues(wf[r], c.target) # {}
                       /\ ValuesOf(wf[r].creationResponse.id, c.target) =
                              DerivedValues(wf[r], c.target))

\* both special fields written, in a run whose template holds values of its own for them
C15_Witness ==
    \E r \in DOMAIN wf :
        LET w == wf[r]
        IN  /\ w.pc = "done"
            /\ SyncLoopOver(w)
            /\ ValuesOf(GHL_PARENT_LOCATION_ID, "Command Center Link Ending") = { "/templatePage" }
            /\ ValuesOf(GHL_PARENT_LOCATION_ID, "Client Assets Folder Link") = { "templateFolderUrl" }
            /\ ValuesOf(w.creationResponse.id, "Command Center Link Ending") = { "/page7" }
            /\ ValuesOf(w.creationResponse.id, "Client Assets Folder Link") =
                   { "https://drive.google.com/drive/folders/folder1" }

\* positions in the run's history of the update calls for the field of the given name
CallsFor(w, name) ==
    { k \in DOMAIN w.trace : w.trace[k].op = "updateCustomValue" /\ w.trace[k].target = name }

FailedCallsFor(w, name) == { k \in CallsFor(w, name) : ~w.trace[k].ok }

(* C16: a failed update of a special field does not abort the run. After a
   failed 'Command Center Link Ending' update the run goes on to the 'Client
   Assets Folder Link' step, which it can always take, and once the run is over
   the other field was attempted after the failure if the new location has it;
   a failed 'Client Assets Folder Link' update comes after the attempt on the
   command field; in both cases the finished run has emitted all the success
   events, the terminal one last, and closed the stream once, with no failure
   event. *)
C16_SpecialFailureCaught ==
    \A r \in DOMAIN wf :
        LET w == wf[r]
            loc == w.creationResponse.id
        IN  /\ w.pc = "clientAssetsField" => ENABLED UpdateClientAssetsField(r)
            /\ \A k \in FailedCallsFor(w, "Command Center Link Ending") :
                  /\ w.pc \in { "clientAssetsField", "done" }
                  /\ (w.pc = "done" /\ ValuesOf(loc, "Client Assets Folder Link") # {})
                     => \E m \in CallsFor(w, "Client Assets Folder Link") : m > k
            /\ \A k \in FailedCallsFor(w, "Client Assets Folder Link") :
                  /\ w.pc = "done"
                  /\ ValuesOf(loc, "Command Center Link Ending") # {}
                     => \E m \in CallsFor(w, "Command Center Link Ending") : m < k
            /\ ((FailedCallsFor(w, "Command Center Link Ending") # {}
                   \/ FailedCallsFor(w, "Client Assets Folder Link") # {}) /\ w.pc = "done")
               => /\ w.events = SuccessEvents
                  /\ w.events[Len(w.events)] = EvGreatJob
                  /\ FailureEvents(w) = << >>
                  /\ w.ended = 1

\* the command field's update failed, the client assets field was still updated,
\* and the run ended in success
C16_Witness ==
    \E r \in DOMAIN wf :
        LET w == wf[r]
        IN  /\ w.pc = "done"
            /\ FailedCallsFor(w, "Command Center Link Ending") # {}
            /\ \E m \in CallsFor(w, "Client Assets Folder Link") : w.trace[m].ok
            /\ ValuesOf(w.creationResponse.id, "Command Center Link Ending") = { "" }
            /\ w.events[Len(w.events)] = EvGreatJob
            /\ w.ended = 1

\* both special updates failed and the run still ended in success
C16_WitnessBothFailed ==
    \E r \in DOMAIN wf :
        /\ wf[r].pc = "done"
        /\ FailedCallsFor(wf[r], "Command Center Link Ending") # {}
        /\ FailedCallsFor(wf[r], "Client Assets Folder Link") # {}
        /\ wf[r].events = SuccessEvents

StorageOps == { "files.create", "permissions.create" }

\* the calls of the custom-field synchronization: the template's location token,
\* the reads and the writes of custom values
IsSyncCall(c) ==
    \/ c.op = "getLocationAccessToken" /\ c.target = GHL_PARENT_LOCATION_ID
    \/ c.op \in { "getCustomValues", "updateCustomValue" }

(* C17: a failed storage call (the folder creation or the permission grant) ends
   the run: it is the last operation of the run's history, the run has emitted
   exactly one failure event, the folder-creation error, as its last event, the
   stream is closed, and the history holds no call of the custom-field
   synchronization. *)
C17_FolderFailureTerminal ==
    \A r \in DOMAIN wf :
        LET w == wf[r]
        IN  \A k \in DOMAIN w.trace :
               (w.trace[k].op \in StorageOps /\ ~w.trace[k].ok)
               => /\ k = Len(w.trace)
                  /\ w.pc = "done"
                  /\ w.ended = 1
                  /\ FailureEvents(w) = << EvFolderError >>
                  /\ w.events[Len(w.events)] = EvFolderError
                  /\ EvFolderCreated \notin { w.events[m] : m \in DOMAIN w.events }
                  /\ \A m \in DOMAIN w.trace : ~IsSyncCall(w.trace[m])

\* the permission grant failed after the folder had been created
C17_Witness ==
    \E r \in DOMAIN wf :
        LET w == wf[r]
        IN  /\ w.trace # << >>
            /\ w.trace[Len(w.trace)].op = "permissions.create"
            /\ ~w.trace[Len(w.trace)].ok
            /\ driveFolders # {}
            /\ w.pc = "done"

\* the folder creation itself failed
C17_WitnessNoFolder ==
    \E r \in DOMAIN wf :
        /\ wf[r].trace # << >>
        /\ wf[r].trace[Len(wf[r].trace)].op = "files.create"
        /\ ~wf[r].trace[Len(wf[r].trace)].ok
        /\ driveFolders = {}

\* the listing has no first funnel, or its first funnel has no step named exactly
\* "Client Portal", or the first step of that name has no page
LacksPortalPage(funnels) ==
    \/ funnels = << >>
    \/ \A k \in DOMAIN funnels[1] :
          funnels[1][k].name = "Client Portal"
          => \/ funnels[1][k].pages = << >>
             \/ \E j \in 1 .. (k - 1) : funnels[1][j].name = "Client Portal"

(* C18: when the platform answered the funnel listing and the listing lacks the
   expected structure, the run is over: getFunnelList is the last operation of
   its history, exactly one failure event was emitted, as the last event, the
   stream is closed, and no storage call was made and no folder exists. *)
C18_MissingPortalPageTerminal ==
    \A r \in DOMAIN wf :
        LET w == wf[r]
        IN  (w.listed /\ LacksPortalPage(w.funnels))
            => /\ w.pc = "done"
               /\ w.ended = 1
               /\ w.trace[Len(w.trace)].op = "getFunnelList"
               /\ Len(FailureEvents(w)) = 1
               /\ w.events[Len(w.events)].fail
               /\ \A k \in DOMAIN w.trace : w.trace[k].kind # "drive"
               /\ driveFolders = {}

\* a listing whose first funnel has no "Client Portal" step although a later funnel has one
C18_Witness ==
    \E r \in DOMAIN wf :
        /\ wf[r].listed
        /\ Len(wf[r].funnels) = 2
        /\ LacksPortalPage(wf[r].funnels)
        /\ wf[r].pc = "done"
        /\ ghlLocations # {}

\* the three ways of lacking the structure, and the step name in another case
C18_WitnessEachShape ==
    \E r \in DOMAIN wf :
        /\ wf[r].listed
        /\ wf[r].pc = "done"
        /\ wf[r].funnels \in { << >>,
                               << << Step("Landing", << "page0" >>), Step("Client Portal", << >>) >> >>,
                               << << Step("client portal", << "page5" >>) >> >> }

\* the operations the workflow can issue; none of them deletes or undoes anything
WorkflowOps ==
    { "findOne", "checkUserExists", "createAccount", "delay", "createUser",
      "getLocationAccessToken", "getFunnelList", "files.create", "permissions.create",
      "getCustomValues", "updateCustomValue" }

FolderIdsOf(folders) == { f.id : f \in folders }

LocationIdsOf(locations) == { l.id : l \in locations }

(* C19: no step of a run removes a location, a user or a folder, the run's
   history holds no other operation than its creating and reading calls, and
   when the stream of a run is closed every resource the run created (the
   location of a successful createAccount, the user of a successful createUser,
   the folder of a successful files.create) still exists. *)
C19_NoRollback ==
    /\ [][ /\ LocationIdsOf(ghlLocations) \subseteq LocationIdsOf(ghlLocations')
           /\ ghlUsers \subseteq ghlUsers'
           /\ FolderIdsOf(driveFolders) \subseteq FolderIdsOf(driveFolders') ]_vars
    /\ [](\A r \in DOMAIN wf :
             LET w == wf[r]
             IN  /\ \A k \in DOMAIN w.trace : w.trace[k].op \in WorkflowOps
                 /\ w.ended > 0
                    => /\ Succeeded(w, "createAccount")
                          => w.creationResponse.id \in LocationIdsOf(ghlLocations)
                       /\ Succeeded(w, "createUser") => w.body["email"] \in ghlUsers
                       /\ Succeeded(w, "files.create") => w.newFolder \in FolderIdsOf(driveFolders))

\* a run that failed at the permission grant: its account, user and folder are left behind
C19_Witness ==
    \E r \in DOMAIN wf :
        LET w == wf[r]
        IN  /\ w.ended = 1
            /\ FailureEvents(w) # << >>
            /\ w.trace # << >>
            /\ ~w.trace[Len(w.trace)].ok
            /\ w.creationResponse.id \in LocationIdsOf(ghlLocations)
            /\ w.body["email"] \in ghlUsers /\ Succeeded(w, "createUser")
            /\ w.newFolder \in FolderIdsOf(driveFolders)

\* a run that failed at the user creation: its account is left behind
C19_WitnessAccountOnly ==
    \E r \in DOMAIN wf :
        LET w == wf[r]
        IN  /\ w.ended = 1
            /\ w.trace # << >>
            /\ w.trace[Len(w.trace)].op = "createUser" /\ ~w.trace[Len(w.trace)].ok
            /\ w.creationResponse.id \in LocationIdsOf(ghlLocations)

EventsOf(w) == { w.events[k] : k \in DOMAIN w.events }

\* the run got past validation, credential lookup and uniqueness check, and none
\* of its fatal calls failed
EveryFatalStepSucceeded(w) ==
    /\ ~RequiredFieldMissing(w.body)
    /\ Authorized
    /\ ~EmailPreexisted(w)
    /\ \A k \in DOMAIN w.trace : w.trace[k].op \in FatalOps => w.trace[k].ok

(* C20: the last event of a finished run tells its outcome: it is the terminal
   success message exactly when every fatal step succeeded, and otherwise it is
   a failure message (one that carries the cross-mark prefix); and no run, at
   any moment, has emitted both a success message and a failure message. *)
C20_LastEventTellsOutcome ==
    \A r \in DOMAIN wf :
        LET w == wf[r]
        IN  /\ w.pc = "done"
               => /\ w.events # << >>
                  /\ (w.events[Len(w.events)] = EvGreatJob <=> EveryFatalStepSucceeded(w))
                  /\ (~EveryFatalStepSucceeded(w) => w.events[Len(w.events)].fail)
            /\ ~(EventsOf(w) \cap { EvSuccess, EvGreatJob } # {} /\ FailureEvents(w) # << >>)

\* a successful run in which a non-fatal update failed
C20_Witness ==
    \E r \in DOMAIN wf :
        LET w == wf[r]
        IN  /\ w.pc = "done"
            /\ EveryFatalStepSucceeded(w)
            /\ ~AllReturned(w)
            /\ w.events[Len(w.events)] = EvGreatJob

\* a run that failed late, after nine progress events
C20_WitnessFailure ==
    \E r \in DOMAIN wf :
        LET w == wf[r]
        IN  /\ w.pc = "done"
            /\ ~EveryFatalStepSucceeded(w)
            /\ Len(w.events) = 10
            /\ w.events[Len(w.events)].fail

----------------------------------------------------------------------------
(* Two provisioning requests for the same e-mail, handled concurrently *)

AuthorizedStore ==
    { Doc(1, GHL_AGENCY_COMPANY_ID, AgencyToken(0), RefreshToken(0), 600, 0, "user0", NoValue) }

InitRace ==
    /\ store = AuthorizedStore
    /\ nextDocId = 2
    /\ ghlUsers = {}
    /\ ghlLocations = {}
    /\ ghlCustomValues = [l \in AllLocations |-> << >>]
    /\ ghlIssued = NothingIssued
    /\ driveFolders = {}
    /\ wf = [r \in { "run1", "run2" } |-> NewRun(SampleBody)]
    /\ now = 0
    /\ ticks = 0
    /\ sched = NoSched
    /\ cb = NoCallbacks

SpecRace == InitRace /\ [][NextWorkflow]_vars

\* the run has passed the uniqueness check and has created nothing yet
PassedCheckOnly(w) == w.pc = "createAccount"

(* C21: nothing makes the uniqueness check and the creation atomic. A run at the
   uniqueness check can pass it whenever the e-mail is not on the platform,
   also while another run for the same e-mail has passed its own check and not
   yet created its user; a run that has passed the check can create its
   account whatever the other run has done; and a run that has created its
   account can create its user even when the other run has already created
   one for that e-mail. *)
C21_CheckThenCreateNotAtomic ==
    \A r \in DOMAIN wf :
        /\ (wf[r].pc = "checkUserExists" /\ wf[r].body["email"] \notin ghlUsers)
           => ENABLED (CheckUserExists(r) /\ wf'[r].pc = "createAccount")
        /\ wf[r].pc = "createAccount"
           => ENABLED (CreateAccount(r) /\ wf'[r].pc = "delayUser")
        /\ wf[r].pc = "createUser"
           => ENABLED (CreateUser(r) /\ wf'[r].pc = "childToken")

\* both runs passed the uniqueness check and both created an account and a user
\* for the one e-mail
C21_Witness ==
    /\ \A r \in DOMAIN wf :
          /\ Succeeded(wf[r], "createAccount")
          /\ Succeeded(wf[r], "createUser")
          /\ wf[r].body["email"] = SampleBody["email"]
    /\ Cardinality({ l \in ghlLocations : l.prospect = SampleBody["email"] }) = 2
    /\ Cardinality(DOMAIN wf) = 2

\* both runs are past the check and nothing has been created
C21_WitnessBothPassed ==
    /\ Cardinality(DOMAIN wf) = 2
    /\ \A r \in DOMAIN wf : PassedCheckOnly(wf[r])
    /\ ghlLocations = {}
    /\ ghlUsers = {}

----------------------------------------------------------------------------
(* One provisioning request while the scheduler refreshes the credential the
   request reads *)

InitShared ==
    /\ store = AuthorizedStore
    /\ nextDocId = 2
    /\ ghlUsers = {}
    /\ ghlLocations = {}
    /\ ghlCustomValues = [l \in AllLocations |-> << >>]
    /\ ghlIssued = NothingIssued
    /\ driveFolders = {}
    /\ wf = [r \in { "run1" } |-> NewRun(SampleBody)]
    /\ now = CronInterval
    /\ ticks = 0
    /\ sched = [j \in { "job1" } |-> IdleJob]
    /\ cb = NoCallbacks

NextShared ==
    \/ NextWorkflow
    \/ \E j \in DOMAIN sched : CronFire(j)
    \/ \E j \in DOMAIN sched : JobFindOne(j)
    \/ \E j \in DOMAIN sched : JobRefresh(j)
    \/ \E j \in DOMAIN sched : JobUpdateOne(j)

SpecShared == InitShared /\ [][NextShared]_vars

\* the records of the Credential Store, whatever their order of insertion
StoreContents == << store, nextDocId >>

\* a step of a provisioning run: some run's position or record changes
WorkflowStep == wf' # wf

\* a step of the scheduler that commits or of the callback that saves
WriterStep ==
    \/ \E j \in DOMAIN sched : sched[j].pc = "updateOne" /\ sched'[j] # sched[j]
    \/ \E c \in DOMAIN cb : cb[c].pc \in { "save", "insert" } /\ cb'[c] # cb[c]

(* C22: no step of a provisioning run, on any path, creates, updates or
   deletes a credential record; every step that changes the Credential Store
   is the scheduler's updateOne or the authorization callback's upsert. *)
C22_WorkflowOnlyReads ==
    [][ /\ WorkflowStep => UNCHANGED StoreContents
        /\ StoreContents' # StoreContents => WriterStep /\ ~WorkflowStep ]_vars

\* the run has read the credential and finished, and in the meantime the
\* scheduler has rewritten the record
C22_Witness ==
    /\ wf["run1"].pc = "done"
    /\ Succeeded(wf["run1"], "findOne")
    /\ Called(wf["run1"], "createAccount")
    /\ store # AuthorizedStore
    /\ ghlIssued.count >= 1

\* the platform calls made with the agency's access token
AgencyOps == { "checkUserExists", "createAccount", "createUser", "getLocationAccessToken" }

\* positions of the run's trace that hold a read of the Credential Store
CredentialReads(w) == { k \in DOMAIN w.trace : w.trace[k].op = "findOne" }

\* positions of the run's trace that hold a platform call
PlatformCalls(w) == { k \in DOMAIN w.trace : w.trace[k].kind = "ghl" }

\* the access token of the agency's record as stored now
StoredAccessToken == findOne(store, GHL_AGENCY_COMPANY_ID).access_token

\* the call the step has just appended to the run's trace
NewCall(r) == wf'[r].trace[Len(wf'[r].trace)]

(* C23: a run that gets past validation has read the agency credential exactly
   once, before any platform call; the read takes the access token stored at
   that moment, no later step changes the token the run holds, and every
   agency-level call the run issues carries that token, whatever the store
   holds when the call is issued. *)
C23_TokenReadOnce ==
    /\ [](\A r \in DOMAIN wf :
            LET w == wf[r]
            IN  /\ Cardinality(CredentialReads(w)) <= 1
                /\ w.pc \notin { "validate", "findCredentials" } /\ ~RequiredFieldMissing(w.body)
                   => Cardinality(CredentialReads(w)) = 1
                /\ \A k \in PlatformCalls(w) : \E j \in CredentialReads(w) : j < k)
    /\ [][\A r \in DOMAIN wf :
            /\ (wf[r].pc = "findCredentials" /\ wf'[r].pc = "checkUserExists")
               => wf'[r].agencyAccessToken = StoredAccessToken
            /\ (wf[r].pc \notin { "validate", "findCredentials" } /\ wf'[r] # wf[r])
               => /\ wf'[r].agencyAccessToken = wf[r].agencyAccessToken
                  /\ (Len(wf'[r].trace) > Len(wf[r].trace) /\ NewCall(r).op \in AgencyOps)
                     => NewCall(r).token = wf[r].agencyAccessToken ]_vars

\* the scheduler's refresh has committed in the middle of the run, and the
\* run's next agency-level call goes out with the token it read, which is no
\* longer the stored one
C23_Witness ==
    /\ wf["run1"].pc = "parentToken"
    /\ Succeeded(wf["run1"], "createUser")
    /\ StoredAccessToken # wf["run1"].agencyAccessToken
    /\ ENABLED (/\ ParentToken("run1")
                /\ NewCall("run1").token # StoredAccessToken
                /\ NewCall("run1").ok)

\* the run has finished in success with a token that the store no longer holds
C23_WitnessFinished ==
    /\ wf["run1"].pc = "done"
    /\ \E k \in DOMAIN wf["run1"].events : wf["run1"].events[k] = EvGreatJob
    /\ StoredAccessToken # wf["run1"].agencyAccessToken

----------------------------------------------------------------------------
(* Two provisioning requests and the scheduler, any of which may wait for ever
   for a call to return *)

ExistingEmail == "old@client.com"

InitStall ==
    /\ store = AuthorizedStore
    /\ nextDocId = 2
    /\ ghlUsers = { ExistingEmail }
    /\ ghlLocations = {}
    /\ ghlCustomValues = [l \in AllLocations |-> << >>]
    /\ ghlIssued = NothingIssued
    /\ driveFolders = {}
    /\ wf = [r \in { "run1", "run2" } |->
               IF r = "run1" THEN NewRun(SampleBody)
               ELSE NewRun([SampleBody EXCEPT !["email"] = ExistingEmail])]
    /\ now = CronInterval
    /\ ticks = 0
    /\ sched = [j \in { "job1" } |-> IdleJob]
    /\ cb = NoCallbacks

SpecStall == InitStall /\ [][NextShared]_vars

\* the next step of run r, whichever it is
RunStep(r) ==
    \/ Validate(r)
    \/ FindCredentials(r)
    \/ CheckUserExists(r)
    \/ CreateAccount(r)
    \/ DelayBeforeUser(r)
    \/ CreateUser(r)
    \/ ChildToken(r)
    \/ DelayBeforeFunnel(r)
    \/ GetFunnelList(r)
    \/ DriveFilesCreate(r)
    \/ DrivePermissionsCreate(r)
    \/ ParentToken(r)
    \/ GetParentCustomValues(r)
    \/ DelayBeforeChildValues(r)
    \/ GetChildCustomValues(r)
    \/ DelayBeforeUpdate(r)
    \/ SyncField(r)
    \/ UpdateCommandField(r)
    \/ UpdateClientAssetsField(r)

\* the next step of a started scheduler run
JobStep(j) ==
    \/ JobFindOne(j)
    \/ JobRefresh(j)
    \/ JobUpdateOne(j)

JobRunning(j) == sched[j].pc \in { "findOne", "refresh", "updateOne" }

\* the handler's positions in the order it passes them
StepOrder ==
    << "validate", "findCredentials", "checkUserExists", "createAccount", "delayUser",
       "createUser", "childToken", "delayFunnel", "getFunnelList", "driveFilesCreate",
       "drivePermissionsCreate", "parentToken", "parentCustomValues", "delayChildValues",
       "childCustomValues", "delayUpdate", "syncLoop", "commandField", "clientAssetsField",
       "done" >>

\* how far a run has got: its position, then its place in the field loop
Rank(w) ==
    (CHOOSE k \in DOMAIN StepOrder : StepOrder[k] = w.pc) * (Len(fieldsToSync) + 2) + w.i

JobOrder == << "findOne", "refresh", "updateOne", "done" >>

JobRank(job) == CHOOSE k \in DOMAIN JobOrder : JobOrder[k] = job.pc

(* C24: a call that never returns stalls only the run that issued it. Whatever
   the other run and the scheduler are waiting for, a run that has not finished
   has its next step enabled, the schedule can fire and a started scheduler
   run has its next step enabled; a step of one run moves that run nearer to
   its end and leaves the other run where it was, and a step of a started
   scheduler run moves it nearer to its end. Each party whose own calls return
   therefore reaches its end in a bounded number of its own steps. *)
C24_StallIsLocal ==
    /\ [](\A r \in DOMAIN wf : wf[r].pc # "done" => ENABLED RunStep(r))
    /\ [](\A j \in DOMAIN sched : IF JobRunning(j) THEN ENABLED JobStep(j)
                                                   ELSE ENABLED CronFire(j))
    /\ [][\A r \in DOMAIN wf :
            wf'[r] # wf[r]
            => /\ Rank(wf'[r]) > Rank(wf[r])
               /\ \A q \in DOMAIN wf \ { r } : wf'[q] = wf[q]
               /\ sched' = sched ]_vars
    /\ [][\A j \in DOMAIN sched :
            (JobRunning(j) /\ sched'[j] # sched[j])
            => JobRank(sched'[j]) > JobRank(sched[j]) /\ wf' = wf ]_vars

\* the first run waits for its account-creation call, and meanwhile the second
\* run has reached its end and the scheduler has committed a refresh
C24_Witness ==
    /\ wf["run1"].pc = "createAccount"
    /\ wf["run2"].pc = "done"
    /\ wf["run2"].ended = 1
    /\ Called(wf["run2"], "checkUserExists")
    /\ sched["job1"].pc = "done"
    /\ StoredAccessToken # AgencyToken(0)

\* the second run waits for its uniqueness check and the scheduler for its
\* refresh call, and meanwhile the first run has gone all the way to success
C24_WitnessLongRun ==
    /\ wf["run2"].pc = "checkUserExists"
    /\ sched["job1"].pc = "refresh"
    /\ wf["run1"].pc = "done"
    /\ \E k \in DOMAIN wf["run1"].events : wf["run1"].events[k] = EvGreatJob

----------------------------------------------------------------------------
(* A provisioning request whose client may close the stream at any moment *)

\* the client closes the connection; the handler registers no listener for it
ClientDisconnects(r) ==
    /\ r \in DOMAIN wf
    /\ wf[r].connected
    /\ wf[r].pc # "done"
    /\ Set(r, [wf[r] EXCEPT !.connected = FALSE])
    /\ UNCHANGED << wfEnv, storeEnv, clockEnv, sched, cb >>

NextDisconnect ==
    \/ NextWorkflow
    \/ \E r \in DOMAIN wf : ClientDisconnects(r)

SpecDisconnect == InitWorkflow /\ [][NextDisconnect]_vars

\* the calls of a complete run, field updates left aside
CallOrder ==
    << "findOne", "checkUserExists", "createAccount", "createUser", "getLocationAccessToken",
       "getFunnelList", "files.create", "permissions.create", "getLocationAccessToken",
       "getCustomValues", "getCustomValues" >>

IsMainCall(c) == c.kind # "delay" /\ c.op # "updateCustomValue"

MainCalls(w) == SelectSeq(w.trace, IsMainCall)

\* the run without what tells whether its client is still there
Blind(w) == [w EXCEPT !.connected = TRUE, !.delivered = 0]

(* C25: a client that disconnects cancels nothing. The disconnect changes
   nothing of the run but the fate of its later stream writes; a run whose
   client has gone still has its next step enabled until it is finished; its
   calls follow the order of a complete run and stop only where a run with its
   client connected stops too (a missing field, no credential, an existing
   e-mail, a failed fatal call) or at the end, after every call of a complete
   run; and no event reaches the client after the disconnect. *)
C25_DisconnectCancelsNothing ==
    /\ [](\A r \in DOMAIN wf :
            LET w == wf[r]
                calls == MainCalls(w)
            IN  /\ Len(calls) <= Len(CallOrder)
                /\ \A k \in DOMAIN calls : calls[k].op = CallOrder[k]
                /\ w.pc # "done" => ENABLED RunStep(r)
                /\ w.pc = "done"
                   => /\ w.events # << >>
                      /\ IF EveryFatalStepSucceeded(w)
                         THEN /\ Len(calls) = Len(CallOrder)
                              /\ w.events[Len(w.events)] = EvGreatJob
                         ELSE w.events[Len(w.events)].fail
                /\ w.connected => w.delivered = Len(w.events))
    /\ [][\A r \in DOMAIN wf :
            /\ wf'[r].connected # wf[r].connected => Blind(wf'[r]) = Blind(wf[r])
            /\ ~wf[r].connected => wf'[r].delivered = wf[r].delivered /\ ~wf'[r].connected ]_vars

\* the client left before the account was created, and the run went on to
\* create the account, the user and the folder and to finish in success
C25_Witness ==
    \E r \in DOMAIN wf :
        /\ wf[r].pc = "done"
        /\ ~wf[r].connected
        /\ wf[r].delivered <= 2
        /\ Len(MainCalls(wf[r])) = Len(CallOrder)
        /\ \E k \in DOMAIN wf[r].trace : wf[r].trace[k].op = "updateCustomValue"
        /\ wf[r].events # << >>
        /\ wf[r].events[Len(wf[r].events)] = EvGreatJob

\* the callback's step answers the request with an error status
AnswersError(c) == cb'[c].pc = "done" /\ cb'[c].status \in { 400, 500 }

(* C26: the authorization callback leaves the Credential Store unchanged on
   error. A request rejected on arrival (no code) is answered 400 with no token
   exchange issued; an exchange that throws is answered 500; no step of a
   callback that answers an error changes the store; and a step of a callback
   that changes the store is taken by a callback that holds the credentials of
   a successful exchange and answers 200. *)
C26_ErrorLeavesStoreUnchanged ==
    [][\A c \in DOMAIN cb :
         cb'[c] # cb[c]
         => /\ (cb[c].pc \in { "idle", "done" } /\ cb'[c].pc = "done")
               => /\ cb'[c].status = 400
                  /\ UNCHANGED << ghlIssued, StoreContents >>
            /\ (cb[c].pc = "exchange" /\ ghlIssued' = ghlIssued)
               => /\ cb'[c].pc = "done"
                  /\ cb'[c].status = 500
                  /\ UNCHANGED StoreContents
            /\ AnswersError(c) => UNCHANGED StoreContents
            /\ StoreContents' # StoreContents
               => /\ cb[c].credentialsToSave # NoDoc
                  /\ TokenTruthy(cb[c].credentialsToSave.access_token)
                  /\ cb'[c].pc = "done"
                  /\ cb'[c].status = 200 ]_vars

\* one callback came without a code and was answered 400, the other's
\* exchange threw and was answered 500; no token was issued and the store is
\* as it was at the start
C26_Witness ==
    /\ cb["callback1"].pc = "done"
    /\ cb["callback1"].status = 400
    /\ cb["callback2"].pc = "done"
    /\ cb["callback2"].status = 500
    /\ ghlIssued = NothingIssued
    /\ store \in InitialStores
    /\ nextDocId = 2

\* a callback whose exchange succeeded has written the store and answered 200
C26_WitnessSaved ==
    /\ cb["callback1"].pc = "done"
    /\ cb["callback1"].status = 200
    /\ store \notin InitialStores
    /\ sched["job1"].pc = "idle"

\* position k of the trace holds a call issued right after a delay of ms
\* milliseconds had run out, the delay itself started right after the
\* successful call op on target
SettledAfter(t, k, ms, op, target) ==
    /\ k > 2
    /\ t[k - 1].kind = "delay"
    /\ t[k - 1].target = ms
    /\ t[k - 2].op = op
    /\ t[k - 2].target = target
    /\ t[k - 2].ok

(* C27: every settle delay has run out before the call it guards is issued.
   In the run's record of calls and expired timers, createUser comes directly
   after the 10 s delay that follows the successful createAccount,
   getFunnelList directly after the 10 s delay that follows the new location's
   sub-token, and the fetch of the new location's custom values directly
   after the 10 s delay that follows the fetch of the template's. *)
C27_DelaysPrecedeCalls ==
    \A r \in DOMAIN wf :
        LET w == wf[r]
            t == w.trace
        IN  \A k \in DOMAIN t :
                /\ t[k].op = "createUser"
                   => SettledAfter(t, k, "10000", "createAccount", businessName(w.body))
                /\ t[k].op = "getFunnelList"
                   => SettledAfter(t, k, "10000", "getLocationAccessToken",
                                   w.creationResponse.id)
                /\ (t[k].op = "getCustomValues" /\ t[k].target # GHL_PARENT_LOCATION_ID)
                   => SettledAfter(t, k, "10000", "getCustomValues", GHL_PARENT_LOCATION_ID)

\* a run that issued the three guarded calls
C27_Witness ==
    \E r \in DOMAIN wf :
        /\ Called(wf[r], "createUser")
        /\ Called(wf[r], "getFunnelList")
        /\ \E k \in DOMAIN wf[r].trace :
              /\ wf[r].trace[k].op = "getCustomValues"
              /\ wf[r].trace[k].target = wf[r].creationResponse.id
        /\ Cardinality({ k \in DOMAIN wf[r].trace : wf[r].trace[k].kind = "delay" }) >= 3

\* positions of the run's trace, by what they hold
TemplateFetches(w) ==
    { k \in DOMAIN w.trace : /\ w.trace[k].op = "getCustomValues"
                             /\ w.trace[k].target = GHL_PARENT_LOCATION_ID }

TenantFetches(w) ==
    { k \in DOMAIN w.trace : /\ w.trace[k].op = "getCustomValues"
                             /\ w.trace[k].target # GHL_PARENT_LOCATION_ID }

UpdatesOf(w, names) ==
    { k \in DOMAIN w.trace : /\ w.trace[k].op = "updateCustomValue"
                             /\ w.trace[k].target \in names }

GenericUpdates(w) ==
    { k \in DOMAIN w.trace : /\ w.trace[k].op = "updateCustomValue"
                             /\ w.trace[k].target \notin SpecialFields }

\* every position of `first` lies before every position of `then`
Precede(first, then) == \A j \in first, k \in then : j < k

(* C28: the calls of the synchronization step are strictly ordered. The fetch
   of the template's custom values has returned before the fetch of the new
   location's is issued, both have returned before the first field update,
   every generic update comes before the "Command Center Link Ending" update
   and that one before the "Client Assets Folder Link" update; each fetch and
   each of the two special updates is issued at most once. *)
C28_SyncCallsOrdered ==
    \A r \in DOMAIN wf :
        LET w == wf[r]
            command == UpdatesOf(w, { "Command Center Link Ending" })
            assets == UpdatesOf(w, { "Client Assets Folder Link" })
            updates == UpdatesOf(w, AllowList) \cup GenericUpdates(w)
        IN  /\ Cardinality(TemplateFetches(w)) <= 1
            /\ Cardinality(TenantFetches(w)) <= 1
            /\ Cardinality(command) <= 1
            /\ Cardinality(assets) <= 1
            /\ TenantFetches(w) # {}
               => /\ TemplateFetches(w) # {}
                  /\ \A j \in TemplateFetches(w) : w.trace[j].ok
            /\ updates # {}
               => /\ TenantFetches(w) # {}
                  /\ \A j \in TenantFetches(w) : w.trace[j].ok
            /\ Precede(TemplateFetches(w), TenantFetches(w))
            /\ Precede(TenantFetches(w), updates)
            /\ Precede(GenericUpdates(w), command)
            /\ Precede(GenericUpdates(w), assets)
            /\ Precede(command, assets)

\* a run that issued two generic updates and both special updates
C28_Witness ==
    \E r \in DOMAIN wf :
        /\ Cardinality(GenericUpdates(wf[r])) >= 2
        /\ UpdatesOf(wf[r], { "Command Center Link Ending" }) # {}
        /\ UpdatesOf(wf[r], { "Client Assets Folder Link" }) # {}
        /\ wf[r].pc = "done"

GenericFields == AllowList \ SpecialFields

\* the names of the fields the location holds
NamesAt(locationId) ==
    { ghlCustomValues[locationId][k].name : k \in DOMAIN ghlCustomValues[locationId] }

\* the run has fetched the custom values of both locations
BothFetched(w) ==
    \E k \in DOMAIN w.trace : /\ w.trace[k].op = "getCustomValues"
                              /\ w.trace[k].target = w.creationResponse.id
                              /\ w.trace[k].ok

(* C29: every field update the run issues carries a name of the allow list, and
   what it changes on the platform is a field of the location the run created
   that bears that very name; no field of another name and no field of the
   template location ever changes. A generic allow-listed name that the
   template or the new location has no field of is never the target of an
   update, and its absence is no failure: a run whose fatal steps all
   succeeded ends with the success message and without a failure event,
   whichever fields are absent. *)
C29_UpdatesStayInAllowList ==
    /\ [](\A r \in DOMAIN wf :
            LET w == wf[r]
            IN  /\ \A k \in DOMAIN w.trace :
                      w.trace[k].op = "updateCustomValue" => w.trace[k].target \in AllowList
                /\ BothFetched(w)
                   => \A n \in GenericFields :
                         (n \notin NamesAt(GHL_PARENT_LOCATION_ID)
                            \/ n \notin NamesAt(w.creationResponse.id))
                         => UpdatesOf(w, { n }) = {}
                /\ (w.pc = "done" /\ EveryFatalStepSucceeded(w))
                   => /\ FailureEvents(w) = << >>
                      /\ w.events # << >>
                      /\ w.events[Len(w.events)] = EvGreatJob)
    /\ [][\A l \in AllLocations :
            ghlCustomValues'[l] # ghlCustomValues[l]
            => /\ l # GHL_PARENT_LOCATION_ID
               /\ \E r \in DOMAIN wf : l = wf'[r].creationResponse.id
               /\ ghlCustomValues[l] # << >>
                  => /\ DOMAIN ghlCustomValues'[l] = DOMAIN ghlCustomValues[l]
                     /\ \A k \in DOMAIN ghlCustomValues[l] :
                           ghlCustomValues'[l][k] # ghlCustomValues[l][k]
                           => /\ ghlCustomValues[l][k].name \in AllowList
                              /\ ghlCustomValues'[l][k].name = ghlCustomValues[l][k].name
                              /\ ghlCustomValues'[l][k].id = ghlCustomValues[l][k].id ]_vars

\* a successful run with the template lacking a field the new location has,
\* the new location lacking a field the template has, both holding a field
\* whose name differs from an allow-listed one by letter case only, and one
\* shared field updated
C29_Witness ==
    \E r \in DOMAIN wf :
        LET w == wf[r]
        IN  /\ w.pc = "done"
            /\ w.events # << >>
            /\ w.events[Len(w.events)] = EvGreatJob
            /\ FailureEvents(w) = << >>
            /\ w.creationResponse.id # NoValue
            /\ \E n \in GenericFields : /\ n \in NamesAt(GHL_PARENT_LOCATION_ID)
                                        /\ n \notin NamesAt(w.creationResponse.id)
            /\ \E n \in GenericFields : /\ n \notin NamesAt(GHL_PARENT_LOCATION_ID)
                                        /\ n \in NamesAt(w.creationResponse.id)
            /\ "agency color 2" \in NamesAt(GHL_PARENT_LOCATION_ID)
            /\ "agency color 2" \in NamesAt(w.creationResponse.id)
            /\ GenericUpdates(w) # {}

\* the call is one of the three reads of the synchronization step: the
\* template's sub-token, the template's custom values, the new location's
SyncRead(w, c) ==
    \/ c.op = "getLocationAccessToken" /\ c.target = GHL_PARENT_LOCATION_ID
    \/ c.op = "getCustomValues"

(* C30: in the synchronization step only a failed field update is tolerated.
   A failed request for the template's sub-token and a failed fetch of either
   location's custom values are the run's last operation: the run is finished,
   its stream closed once, its last and only failure event written, and it has
   issued no field update, while the location, the user and the folder it
   created are still there. A run in which a field update failed never writes
   a failure event and ends with the success message. *)
C30_OnlyUpdateFailuresTolerated ==
    \A r \in DOMAIN wf :
        LET w == wf[r]
        IN  \A k \in DOMAIN w.trace :
                /\ (SyncRead(w, w.trace[k]) /\ ~w.trace[k].ok)
                   => /\ k = Len(w.trace)
                      /\ w.pc = "done"
                      /\ w.ended = 1
                      /\ Len(FailureEvents(w)) = 1
                      /\ w.events[Len(w.events)].fail
                      /\ ~Called(w, "updateCustomValue")
                      /\ w.creationResponse.id \in LocationIdsOf(ghlLocations)
                      /\ w.body["email"] \in ghlUsers
                      /\ w.folderId \in FolderIdsOf(driveFolders)
                /\ (w.trace[k].op = "updateCustomValue" /\ ~w.trace[k].ok)
                   => /\ FailureEvents(w) = << >>
                      /\ w.pc = "done" => /\ w.ended = 1
                                          /\ w.events[Len(w.events)] = EvGreatJob

\* three runs' ends, one per read: the run stopped at the failed read, with
\* its account, user and folder in place
C30_WitnessAt(op, parent) ==
    \E r \in DOMAIN wf :
        LET w == wf[r]
        IN  /\ w.trace # << >>
            /\ w.trace[Len(w.trace)].op = op
            /\ (w.trace[Len(w.trace)].target = GHL_PARENT_LOCATION_ID) = parent
            /\ ~w.trace[Len(w.trace)].ok
            /\ w.pc = "done"
            /\ Succeeded(w, "permissions.create")
            /\ w.folderId \in FolderIdsOf(driveFolders)

\* the fetch of the new location's custom values failed
C30_Witness == C30_WitnessAt("getCustomValues", FALSE)

\* the template's sub-token could not be obtained
C30_WitnessToken == C30_WitnessAt("getLocationAccessToken", TRUE)

\* the fetch of the template's custom values failed
C30_WitnessTemplate == C30_WitnessAt("getCustomValues", TRUE)

\* a field update failed and the run ended in success
C30_WitnessTolerated ==
    \E r \in DOMAIN wf :
        /\ wf[r].pc = "done"
        /\ \E k \in DOMAIN wf[r].trace : /\ wf[r].trace[k].op = "updateCustomValue"
                                         /\ ~wf[r].trace[k].ok
        /\ wf[r].events[Len(wf[r].events)] = EvGreatJob

----------------------------------------------------------------------------
(* A refresh racing an authorization callback *)

\* the record the scheduler run read, as the store holds it now
StoredNow(job) == CHOOSE d \in store : d._id = job.credential._id

\* the record was rewritten after the run read it
WrittenSinceRead(job) ==
    /\ \E d \in store : d._id = job.credential._id
    /\ StoredNow(job) # job.credential

(* C31: a scheduler run does not overwrite tokens stored after its read. When
   the run's updateOne commits and the record it read has been rewritten in
   the meantime, the record keeps the tokens it held just before the commit. *)
C31_CallbackTokensSurvive ==
    [][\A j \in DOMAIN sched :
         (sched[j].pc = "updateOne" /\ sched'[j].pc = "done" /\ WrittenSinceRead(sched[j]))
         => \E d \in store' :
               /\ d._id = sched[j].credential._id
               /\ d.access_token = StoredNow(sched[j]).access_token
               /\ d.refresh_token = StoredNow(sched[j]).refresh_token ]_vars

\* what does hold: the run's write replaces the four token fields of the record
\* it read, whatever the record holds at that moment
C31_LastWriteWins ==
    [][\A j \in DOMAIN sched :
         (sched[j].pc = "updateOne" /\ sched'[j].pc = "done")
         => \A d \in store' :
               d._id = sched[j].credential._id
               => /\ d.access_token = sched[j].newCredentials.access_token
                  /\ d.refresh_token = sched[j].newCredentials.refresh_token ]_vars

\* the run is about to commit over tokens a callback stored after the run's read
C31_WitnessRace ==
    \E j \in DOMAIN sched :
        /\ sched[j].pc = "updateOne"
        /\ WrittenSinceRead(sched[j])
        /\ \E c \in DOMAIN cb : cb[c].pc = "done" /\ cb[c].status = 200

----------------------------------------------------------------------------
(* Scheduler runs that overlap: the schedule fires again while an earlier run
   is still waiting for one of its calls *)

\* the instant is one of the schedule and no run has been started at it yet
OnSchedule == now % CronInterval = 0 /\ \A q \in DOMAIN sched : sched[q].startedAt # now

\* a schedule that skips an instant while an earlier run is in flight
ScheduledFireUnlessRunning(j) ==
    /\ OnSchedule
    /\ \A q \in DOMAIN sched : sched[q].pc \in { "idle", "done" }
    /\ CronFire(j)

\* node-cron calls the task at every instant of the schedule, whether or not
\* the promise of an earlier call has settled
ScheduledFire(j) ==
    /\ OnSchedule
    /\ CronFire(j)

InitOverlap ==
    /\ store = AuthorizedStore
    /\ nextDocId = 2
    /\ ghlUsers = {}
    /\ ghlLocations = {}
    /\ ghlCustomValues = [l \in AllLocations |-> << >>]
    /\ ghlIssued = NothingIssued
    /\ driveFolders = {}
    /\ wf = [r \in {} |-> NewRun(SampleBody)]
    /\ now = CronInterval
    /\ ticks = 0
    /\ sched = [j \in { "job1", "job2" } |-> IdleJob]
    /\ cb = [c \in { "callback1" } |-> IdleCallback]

NextOverlap ==
    \/ \E j \in DOMAIN sched : ScheduledFire(j)
    \/ \E j \in DOMAIN sched : JobFindOne(j)
    \/ \E j \in DOMAIN sched : JobRefresh(j)
    \/ \E j \in DOMAIN sched : JobUpdateOne(j)
    \/ \E c \in DOMAIN cb : CallbackArrives(c)
    \/ \E c \in DOMAIN cb : CallbackExchange(c)
    \/ \E c \in DOMAIN cb : CallbackSave(c)
    \/ \E c \in DOMAIN cb : CallbackInsert(c)
    \/ Tick

SpecOverlap == InitOverlap /\ [][NextOverlap]_vars

\* the agency's record as stored now
AgencyRecord == findOne(store, GHL_AGENCY_COMPANY_ID)

\* the run is waiting for its refresh call to return
RefreshInFlight(job) == job.pc = "refresh"

(* C32: scheduler runs are not mutually exclusive. At an instant of the
   schedule a run starts whatever an earlier run is waiting for; a run whose
   findOne returns takes the record as it is stored and, when the record is
   due, goes on to the refresh call with the stored refresh token, also while
   another run's refresh call with that same token is in flight. *)
C32_RunsOverlap ==
    \A j \in DOMAIN sched :
        /\ (OnSchedule /\ sched[j].pc \in { "idle", "done" }) => ENABLED ScheduledFire(j)
        /\ (/\ sched[j].pc = "findOne"
            /\ AgencyRecord # NoDoc
            /\ sched[j].currentTime >=
                   Seconds(AgencyRecord.created_at) + AgencyRecord.expires_in - GracePeriod)
           => ENABLED (/\ JobFindOne(j)
                       /\ RefreshInFlight(sched'[j])
                       /\ sched'[j].credential = AgencyRecord)

\* the first run's refresh call has been in flight for a whole interval, and
\* the second run, started at the next instant of the schedule, has read the
\* same record and waits for its own refresh call with the same refresh token
C32_Witness ==
    /\ RefreshInFlight(sched["job1"])
    /\ RefreshInFlight(sched["job2"])
    /\ sched["job2"].startedAt >= sched["job1"].startedAt + CronInterval
    /\ sched["job1"].credential = sched["job2"].credential
    /\ sched["job1"].credential.refresh_token = RefreshToken(0)
    /\ AgencyRecord = sched["job1"].credential

\* both refresh calls were answered: the platform was asked twice to refresh
\* with the one stored refresh token
C32_WitnessTwice ==
    /\ sched["job1"].pc = "updateOne"
    /\ sched["job2"].pc = "updateOne"
    /\ sched["job1"].presented = sched["job2"].presented
    /\ sched["job1"].presented = RefreshToken(0)
    /\ ghlIssued.count = 2

\* the four fields a write of tokens sets
TokenFields(d) == << d.access_token, d.refresh_token, d.expires_in, d.created_at >>

\* the four fields as the scheduler run's pending updateOne carries them
JobWrite(job) ==
    << job.newCredentials.access_token, job.newCredentials.refresh_token,
       job.newCredentials.expires_in, job.writeIssuedAt >>

\* the step commits a write of the scheduler or of the callback that sets the
\* record's four fields to those of that one write
WrittenByOne(d) ==
    \/ \E j \in DOMAIN sched : /\ sched[j].pc = "updateOne"
                               /\ sched'[j].pc = "done"
                               /\ d._id = sched[j].credential._id
                               /\ TokenFields(d) = JobWrite(sched[j])
    \/ \E c \in DOMAIN cb : /\ cb[c].pc \in { "save", "insert" }
                            /\ cb'[c].pc = "done"
                            /\ d.companyId = cb[c].credentialsToSave.companyId
                            /\ TokenFields(d) = TokenFields(cb[c].credentialsToSave)

(* C33: the stored credential's access token, refresh token, TTL and issue
   time always come from one write. Every step that changes a record or adds
   one sets the four fields together to what one scheduler updateOne or one
   callback upsert carries; and in every state the access token and the
   refresh token of a record are those of one and the same token response. *)
C33_TokensFromOneWrite ==
    /\ [](\A d \in store :
            /\ d.access_token.kind = "agency"
            /\ d.refresh_token.kind = "refresh"
            /\ d.access_token.n = d.refresh_token.n)
    /\ [][\A d \in store' : d \notin store => WrittenByOne(d)]_vars

\* two overlapping runs have both committed their refresh of the one stored
\* refresh token, and the record holds the tokens of the response issued first
C33_Witness ==
    /\ \A j \in DOMAIN sched : sched[j].pc = "done" /\ sched[j].outcome = "refreshed"
    /\ sched["job1"].presented = sched["job2"].presented
    /\ sched["job2"].startedAt >= sched["job1"].startedAt + CronInterval
    /\ ghlIssued.count = 2
    /\ AgencyRecord.access_token = AgencyToken(1)
    /\ AgencyRecord.refresh_token = RefreshToken(1)

\* a callback and a scheduler run have both written the agency's record
C33_WitnessCallback ==
    /\ cb["callback1"].pc = "done"
    /\ cb["callback1"].status = 200
    /\ \E j \in DOMAIN sched : sched[j].pc = "done" /\ sched[j].outcome = "refreshed"
    /\ Cardinality(store) = 1
    /\ AgencyRecord # NoDoc

----------------------------------------------------------------------------
(* Milestone events *)

Emitted(w, event) == \E k \in DOMAIN w.events : w.events[k] = event

(* C34: a milestone event is written only after the call it reports returned
   with success. The welcome message only with the location created, the
   "one step closer" message only with the user created, the folder message
   only with the folder created and shared with the account's e-mail, and the
   two final messages only after every fatal step succeeded and every call of
   a complete run was made. *)
C34_MilestonesAfterSuccess ==
    \A r \in DOMAIN wf :
        LET w == wf[r]
        IN  /\ Emitted(w, EvWelcome)
               => /\ Succeeded(w, "createAccount")
                  /\ w.creationResponse.id \in LocationIdsOf(ghlLocations)
            /\ Emitted(w, EvOneStepCloser)
               => /\ Succeeded(w, "createUser")
                  /\ w.body["email"] \in ghlUsers
            /\ Emitted(w, EvFolderCreated)
               => /\ Succeeded(w, "files.create")
                  /\ Succeeded(w, "permissions.create")
                  /\ \E f \in driveFolders : /\ f.id = w.folderId
                                             /\ f.writer = w.creationResponse.email
            /\ (Emitted(w, EvSuccess) \/ Emitted(w, EvGreatJob))
               => /\ EveryFatalStepSucceeded(w)
                  /\ Len(MainCalls(w)) = Len(CallOrder)
                  /\ \A k \in DOMAIN MainCalls(w) : MainCalls(w)[k].ok

\* a run that wrote the three milestone messages and then failed
C34_Witness ==
    \E r \in DOMAIN wf :
        /\ Emitted(wf[r], EvWelcome)
        /\ Emitted(wf[r], EvOneStepCloser)
        /\ Emitted(wf[r], EvFolderCreated)
        /\ wf[r].pc = "done"
        /\ FailureEvents(wf[r]) # << >>

\* a run that wrote the two final messages
C34_WitnessSuccess ==
    \E r \in DOMAIN wf : Emitted(wf[r], EvSuccess) /\ Emitted(wf[r], EvGreatJob)

----------------------------------------------------------------------------
(* A provisioning request every call of which returns *)

\* every call and every timer the run waits for returns in the end: the
\* continuation that waits for it is scheduled
CallsReturn == \A r \in { "run1" } : WF_vars(RunStep(r))

SpecWorkflowLive == InitWorkflow /\ [][NextWorkflow]_vars /\ CallsReturn

DelayLabels == { "delayUser", "delayFunnel", "delayChildValues", "delayUpdate" }

\* the most operations a run records: the calls of a complete run, its delays
\* and one update for each name of the allow list
StepBound == Len(CallOrder) + Cardinality(DelayLabels) + Len(fieldsToSync)

Closed(w) == w.pc = "done" /\ w.ended = 1

(* C35: every run terminates. With every call and timer returning, the run
   comes to its end with the stream closed once and stays there, whatever
   calls fail; it never records more operations than the calls of a complete
   run, the four delays and one update for each allow-listed name, and every
   step takes it nearer to its end. *)
C35_RunTerminates ==
    /\ <>[](\A r \in DOMAIN wf : Closed(wf[r]))
    /\ [](\A r \in DOMAIN wf : Len(wf[r].trace) <= StepBound)
    /\ [][\A r \in DOMAIN wf : wf'[r] # wf[r] => Rank(wf'[r]) > Rank(wf[r])]_vars

\* a run closed after the longest record: every call, delay and update made,
\* some of the updates failed
C35_Witness ==
    \E r \in DOMAIN wf :
        /\ Closed(wf[r])
        /\ Len(wf[r].trace) >= Len(CallOrder) + Cardinality(DelayLabels) + 3
        /\ \E k \in DOMAIN wf[r].trace : /\ wf[r].trace[k].op = "updateCustomValue"
                                         /\ ~wf[r].trace[k].ok

----------------------------------------------------------------------------
(* Two provisioning requests handled concurrently whose bodies agree or differ
   on country and postal code, under one of two stored credentials *)

OtherBody ==
    [SampleBody EXCEPT !["email"] = "other@client.com", !["first_name"] = "other",
                       !["last_name"] = "other", !["phone"] = "other",
                       !["city"] = "other", !["Business Name"] = "other"]

RelocatedBody == [OtherBody EXCEPT !["postal_code"] = "94105"]

RenewedStore ==
    { Doc(1, GHL_AGENCY_COMPANY_ID, AgencyToken(1), RefreshToken(1), 600, 0, "user0", NoValue) }

PasswordCases == { << AuthorizedStore, OtherBody >>, << RenewedStore, RelocatedBody >> }

InitPassword ==
    /\ \E case \in PasswordCases :
          /\ store = case[1]
          /\ wf = [r \in { "run1", "run2" } |->
                     IF r = "run1" THEN NewRun(SampleBody) ELSE NewRun(case[2])]
    /\ nextDocId = 2
    /\ ghlUsers = {}
    /\ ghlLocations = {}
    /\ ghlCustomValues = [l \in AllLocations |-> << >>]
    /\ ghlIssued = NothingIssued
    /\ driveFolders = {}
    /\ now = 0
    /\ ticks = 0
    /\ sched = NoSched
    /\ cb = NoCallbacks

SpecPassword == InitPassword /\ [][NextWorkflow]_vars

\* the run has called user creation
SentPassword(w) == w.password # NoValue

\* the two requests have the same country and the same postal code
SamePlace(a, b) ==
    /\ a["country"] = b["country"]
    /\ a["postal_code"] = b["postal_code"]

\* the fixed pattern, from the two fields alone
InitialPassword(country, postalCode) == "Marketcl!ng_" \o country \o postalCode

(* C36: the password sent to user creation is a function of the request's
   country and postal code alone. Two runs that have called user creation and
   whose requests agree on the two fields have sent the same password, whatever
   their e-mail, names, phone, city and business name and whatever location
   the platform created for each; and under either stored credential, whether
   the creation succeeded or failed, the password is the fixed pattern applied
   to the two fields. *)
C36_PasswordFromPlaceAlone ==
    /\ \A r1 \in DOMAIN wf : \A r2 \in DOMAIN wf :
          ( /\ SentPassword(wf[r1])
            /\ SentPassword(wf[r2])
            /\ SamePlace(wf[r1].body, wf[r2].body) )
          => wf[r1].password = wf[r2].password
    /\ \A r \in DOMAIN wf :
          SentPassword(wf[r]) =>
             wf[r].password = InitialPassword(wf[r].body["country"], wf[r].body["postal_code"])

\* two runs with different e-mails, names and locations, the same country and
\* postal code, have both called user creation, one with success, one with failure
C36_Witness ==
    /\ SentPassword(wf["run1"])
    /\ SentPassword(wf["run2"])
    /\ SamePlace(wf["run1"].body, wf["run2"].body)
    /\ wf["run1"].body["email"] # wf["run2"].body["email"]
    /\ wf["run1"].body["first_name"] # wf["run2"].body["first_name"]
    /\ wf["run1"].creationResponse.id # wf["run2"].creationResponse.id
    /\ wf["run1"].body["email"] \in ghlUsers
    /\ wf["run2"].body["email"] \notin ghlUsers
    /\ wf["run2"].pc = "done"

\* under the other stored credential the first request has sent the same password
C36_WitnessRenewed ==
    /\ store = RenewedStore
    /\ SentPassword(wf["run1"])
    /\ SentPassword(wf["run2"])
    /\ wf["run1"].agencyAccessToken = AgencyToken(1)
    /\ wf["run1"].password = InitialPassword("US", "10001")

\* two runs that differ in the postal code have sent different passwords
C36_WitnessRelocated ==
    /\ SentPassword(wf["run1"])
    /\ SentPassword(wf["run2"])
    /\ ~SamePlace(wf["run1"].body, wf["run2"].body)
    /\ wf["run1"].password # wf["run2"].password

----------------------------------------------------------------------------
\* the step is callback c's exchange answered by a token response without companyId
ExchangedWithoutOwner(c) ==
    /\ cb[c].pc = "exchange"
    /\ cb'[c] # cb[c]
    /\ ghlIssued'.count = ghlIssued.count + 1
    /\ ghlIssued'.last.grant = "authorization_code"
    /\ ~Truthy(ghlIssued'.last.companyId)

(* C37: the authorization callback never stores a credential without an owner
   key. Every stored record has a companyId, and so has every document a
   callback holds for saving; a callback whose token exchange succeeded with a
   response that carries no companyId is answered 400 in that step, holds
   nothing to save, and the step creates and modifies no record. *)
C37_NoCredentialWithoutOwner ==
    /\ [](\A d \in store : Truthy(d.companyId))
    /\ [](\A c \in DOMAIN cb :
            cb[c].credentialsToSave # NoDoc => Truthy(cb[c].credentialsToSave.companyId))
    /\ [][\A c \in DOMAIN cb :
            ExchangedWithoutOwner(c)
            => /\ cb'[c].pc = "done"
               /\ cb'[c].status = 400
               /\ cb'[c].credentialsToSave = NoDoc
               /\ UNCHANGED StoreContents]_vars

\* the first callback's exchange returned tokens without a companyId and the
\* callback was answered 400, the other callback has not arrived
C37_Witness ==
    /\ cb["callback1"].pc = "done"
    /\ cb["callback1"].status = 400
    /\ cb["callback1"].requests = 1
    /\ cb["callback2"].pc = "idle"
    /\ ghlIssued.count = 1
    /\ ghlIssued.last.grant = "authorization_code"
    /\ ~Truthy(ghlIssued.last.companyId)
    /\ store # {}

\* the same rejection after the other callback stored a record for its company
C37_WitnessAfterSave ==
    /\ cb["callback1"].pc = "done"
    /\ cb["callback1"].status = 400
    /\ cb["callback2"].pc = "done"
    /\ cb["callback2"].status = 200
    /\ ghlIssued.count = 2
    /\ ghlIssued.last.grant = "authorization_code"
    /\ ~Truthy(ghlIssued.last.companyId)
    /\ Cardinality(store) = 2

----------------------------------------------------------------------------
\* the folder a run's files.create made, as the storage provider holds it
FolderMadeBy(w) == { f \in driveFolders : f.id = w.newFolder }

\* the run's permission grant was called and failed
GrantFailed(w) ==
    \E k \in DOMAIN w.trace : w.trace[k].op = "permissions.create" /\ ~w.trace[k].ok

(* C38: createFolder returns a folder identifier only when both its calls
   succeeded. A run holds a folderId only after a successful files.create and a
   successful permissions.create, and the folder of that id then lies under the
   parent folder with the account's e-mail as writer. When the grant fails after
   the folder was created, the run holds no folderId, its stream is closed with
   the folder-creation error as last event, and the folder stays under the
   parent with no writer; no step removes a folder. *)
C38_FolderIdNeedsBothCalls ==
    /\ [](\A r \in DOMAIN wf :
            LET w == wf[r]
            IN  /\ w.folderId # NoValue
                   => /\ Succeeded(w, "files.create")
                      /\ Succeeded(w, "permissions.create")
                      /\ w.folderId = w.newFolder
                      /\ FolderMadeBy(w) =
                            { [id |-> w.folderId, name |-> w.creationResponse.name,
                               parent |-> GOOGLE_DRIVE_PARENT_FOLDER_ID,
                               writer |-> w.creationResponse.email] }
                /\ GrantFailed(w)
                   => /\ w.folderId = NoValue
                      /\ w.pc = "done"
                      /\ w.ended = 1
                      /\ w.events[Len(w.events)] = EvFolderError
                      /\ FolderMadeBy(w) =
                            { [id |-> w.newFolder, name |-> w.creationResponse.name,
                               parent |-> GOOGLE_DRIVE_PARENT_FOLDER_ID,
                               writer |-> NoValue] })
    /\ [][FolderIdsOf(driveFolders) \subseteq FolderIdsOf(driveFolders')]_vars

\* the grant failed after the folder was created: the run ended in failure
\* without a folderId and the folder lies under the parent, shared with nobody
C38_Witness ==
    \E r \in DOMAIN wf :
        LET w == wf[r]
        IN  /\ Succeeded(w, "files.create")
            /\ GrantFailed(w)
            /\ w.folderId = NoValue
            /\ w.ended = 1
            /\ \E f \in driveFolders :
                  /\ f.id = w.newFolder
                  /\ f.parent = GOOGLE_DRIVE_PARENT_FOLDER_ID
                  /\ f.writer = NoValue

\* both calls succeeded and the run holds the identifier of the shared folder
C38_WitnessReturned ==
    \E r \in DOMAIN wf :
        LET w == wf[r]
        IN  /\ w.folderId # NoValue
            /\ \E f \in driveFolders :
                  f.id = w.folderId /\ f.writer = w.creationResponse.email

====
